---- MODULE Spec2Model ----
(***************************************************************************)
(* Shape bookkeeping of the FastFCN road-segmentation models               *)
(* (road_segmentation/models/fastfcn.py, models/resnet.py) and of the      *)
(* baseline experiment (experiments/baseline_fastfcn.py): stride padding,  *)
(* backbone, JPU, heads, crop back, and the training augmentation.         *)
(*                                                                         *)
(* A tensor is represented by its shape [n, h, w, c]; the augmentation     *)
(* works on small grids whose cells carry the mask value and the           *)
(* coordinate of the image pixel they hold.                                *)
(***************************************************************************)
EXTENDS Integers, Sequences, FiniteSets, TLC

VARIABLES
    callee,                 \* which callable the run exercises
    pc,                     \* position inside that call
    inputs,                 \* shape of the `inputs` argument
    target_stride,          \* pad_to_stride's target_stride argument
    paddings,               \* pad_to_stride's `paddings`
    padded_inputs,          \* result of pad_to_stride
    features,               \* ResNetBackbone.call: the running `features`
    layer_number,           \* ResNetBackbone.call: loop counter (starts at 2)
    layer_outputs,          \* outputs of the residual layers run so far
    backbone_out,           \* what the backbone call returned
    intermediate_features,  \* backbone(...)[-3:], the JPU's inputs
    jpu_features,           \* the `features` argument of JPUModule
    dilation_inputs,        \* JPUModule.call: the concatenated tensor
    upsampled_features,     \* JPUModule.call's result
    small_outputs,          \* the head's logits
    padded_outputs,         \* TestFastFCN: logits after 8x upsampling
    crop,                   \* offsets used by resize_with_crop_or_pad
    outputs,                \* the value the call returns
    apc,                    \* position inside _augment_sample
    image,                  \* shape [h, w] of the `image` argument
    mask,                   \* the `mask` argument, a grid of values
    do_blur,                \* blur decision
    blurred_image,          \* shape of blurred_image
    scaling_factor,         \* drawn factor, in ScaleDen-ths
    scaled_size,            \* <<height, width>> both tensors are resized to
    scaled_image,           \* grid of the scaled image's pixels
    scaled_mask,            \* grid of the scaled mask's values
    concatenated_sample,    \* grid of [img, mask] cells
    flip,                   \* draw of random_flip_left_right
    flipped_sample,
    num_rotations,          \* drawn number of quarter turns
    rotated_sample,
    crop_offset,            \* <<top, left>> drawn by random_crop
    cropped_sample,
    output_image,
    output_mask,
    output_image_lab,       \* the converted image the call returns
    experiment_class,       \* the class whose run() is executing
    rpc,                    \* position inside run / _run_actual_experiment
    seed_calls,             \* number of fix_seeds calls so far
    args,                   \* parsed command line arguments
    experiment_parameters,  \* what self.build_parameter_dict(args) returned
    parameters,             \* _build_parameter_dict: the local `parameters`
    self_parameters,        \* self._parameters
    build_calls,            \* number of _build_parameter_dict calls so far
    parameters_seen,        \* every value self.parameters returned to a reader
    directories,            \* directories that exist under the log directory
    experiment_directory,   \* self._experiment_directory
    logging_ready,          \* _setup_logging has run (log.txt exists)
    keras_helper,           \* self._keras_helper is set
    parameters_json,        \* content of parameters.json
    classifier,             \* what fit returned
    test_prediction_input,  \* test images by sample id, in reading order
    test_prediction,        \* what predict returned, in the same order
    submission,             \* rows written to submission.csv
    sample_index,           \* position of the loop over test_prediction
    predicted_segmentation, \* shape of the current sample after np.squeeze
    patch_y,                \* loop variables of the row loops
    patch_x,
    trial,                  \* trials run by the search loop
    raised,                 \* the exception that left run(), if any
    next_object,            \* identity the next constructed object gets
    caller_backbones,       \* backbones constructed outside the models
    model_instances,        \* the full models constructed so far
    keras_validates,        \* whether the installed Keras checks layer arguments
    layers,                 \* the configured objects constructed so far
    construction_result,    \* how the last constructor call ended
    cpc,                    \* position of the convert_colorspace call
    images,                 \* its argument: one RGB pixel, in units of 1/FX
    images_lab,             \* its result, in units of 1/FX
    bpc,                    \* position inside BottleneckBlock.call
    block,                  \* the block's configuration and its input
    block_features,         \* `features`: the layers applied so far, its shape
    block_output,           \* what the call returned
    kpc,                    \* position of the blur step
    blur_size,              \* parameters['augmentation_blur_size']
    sigma_squared,          \* the drawn sigma squared, in quarters
    blur_image,             \* the image entering the blur step, values in 1/FX
    blur_mask,              \* the mask of the sample
    blur_selected,          \* do_blur
    blur_output,            \* blurred_image: the image leaving the blur step
    dpc,                    \* position of the default-configured augmentation
    default_factor,         \* the drawn scaling factor, in 1/DefaultScaleDen
    default_blurred,        \* shape of blurred_image
    default_scaled_size,    \* scaled_size
    default_rotated,        \* shape of rotated_sample
    default_output,         \* shapes of the returned image and mask
    run_pc,                 \* concurrent runs, position of each inside run
    run_tag,                \* concurrent runs, self.tag of each
    run_directory,          \* concurrent runs, _experiment_directory of each
    fs_directories,         \* shared file system: directories and their makers
    fs_files                \* files in them, with the run that wrote each

shapeVars == <<callee, pc, inputs, target_stride, paddings, padded_inputs,
               features, layer_number, layer_outputs, backbone_out,
               intermediate_features, jpu_features, dilation_inputs,
               upsampled_features, small_outputs, padded_outputs, crop,
               outputs>>

augVars == <<apc, image, mask, do_blur, blurred_image, scaling_factor,
             scaled_size, scaled_image, scaled_mask, concatenated_sample, flip,
             flipped_sample, num_rotations, rotated_sample, crop_offset,
             cropped_sample, output_image, output_mask, output_image_lab>>

harnessVars == <<experiment_class, rpc, seed_calls, args,
                 experiment_parameters, parameters, self_parameters,
                 build_calls, parameters_seen, directories,
                 experiment_directory, logging_ready, keras_helper,
                 parameters_json, classifier, test_prediction_input,
                 test_prediction, submission, sample_index,
                 predicted_segmentation, patch_y, patch_x, trial, raised>>

ownVars == <<next_object, caller_backbones, model_instances>>

configVars == <<keras_validates, layers, construction_result>>

colourVars == <<cpc, images, images_lab>>

blockVars == <<bpc, block, block_features, block_output>>

blurVars == <<kpc, blur_size, sigma_squared, blur_image, blur_mask,
              blur_selected, blur_output>>

defaultVars == <<dpc, default_factor, default_blurred, default_scaled_size,
                 default_rotated, default_output>>

runsVars == <<run_pc, run_tag, run_directory, fs_directories, fs_files>>

unitVars == <<configVars, colourVars, blockVars, blurVars, defaultVars,
             runsVars>>

exceptConfigVars == <<colourVars, blockVars, blurVars, defaultVars, runsVars>>

exceptColourVars == <<configVars, blockVars, blurVars, defaultVars, runsVars>>

exceptBlockVars == <<configVars, colourVars, blurVars, defaultVars, runsVars>>

exceptBlurVars == <<configVars, colourVars, blockVars, defaultVars, runsVars>>

exceptDefaultVars == <<configVars, colourVars, blockVars, blurVars, runsVars>>

exceptRunsVars == <<configVars, colourVars, blockVars, blurVars, defaultVars>>

vars == <<shapeVars, augVars, harnessVars, ownVars, unitVars>>

---------------------------------------------------------------------------
(* Bounds of the model *)

MaxDim == 20
MaxBatch == 2
MaxStride == 4
MaxFeat == 9
MaxAugDim == 4
MaskDen == 2
ScaleDen == 4
CropSize == 3

(* Sizes every run also tries: the strides' multiples and their neighbours *)
SpecialDims == {32, 33, 64, 65, 256, 384}
Dims == (1..MaxDim) \cup SpecialDims
Strides == (1..MaxStride) \cup {8, 16, 32}
FeatDims == (1..MaxFeat) \cup {32}
FeatureCounts == {1, 512}

---------------------------------------------------------------------------
(* Program constants *)

OUTPUT_STRIDE == 8
MODEL_STRIDE == 32
RGB_CHANNELS == 3
INITIAL_FILTERS == 64
HEAD_FEATURES == 512
TEST_HEAD_FEATURES == 256
OUTPUT_UPSAMPLING == 8
AUGMENTATION_BLUR_SIZE == 5

Models == {"FastFCN", "FastFCNNoContext", "TestFastFCN"}

NoShape == [n |-> 0, h |-> 0, w |-> 0, c |-> 0]
NoPaddings == [top |-> 0, bottom |-> 0, left |-> 0, right |-> 0]
NoCrop == [crop_top |-> 0, crop_left |-> 0, pad_top |-> 0, pad_bottom |-> 0,
           pad_left |-> 0, pad_right |-> 0]

Shape(n, h, w, c) == [n |-> n, h |-> h, w |-> w, c |-> c]

CeilDiv(a, b) == (a + b - 1) \div b

Max(a, b) == IF a >= b THEN a ELSE b
Min(a, b) == IF a <= b THEN a ELSE b

---------------------------------------------------------------------------
(* Library operations on shapes *)

(* tf.pad: REFLECT mirrors the content without repeating the border, so   *)
(* each padding must be at most the dimension minus one.                  *)
tf_pad_defined(shape, p, mode) ==
    mode = "REFLECT" =>
        /\ p.top <= shape.h - 1 /\ p.bottom <= shape.h - 1
        /\ p.left <= shape.w - 1 /\ p.right <= shape.w - 1

tf_pad(shape, p) ==
    [shape EXCEPT !.h = @ + p.top + p.bottom, !.w = @ + p.left + p.right]

(* tf.image.resize_with_crop_or_pad: centre crop and/or zero pad to the   *)
(* target size; both targets must be positive.                            *)
resize_defined(target_height, target_width) ==
    target_height > 0 /\ target_width > 0

(* mutant: the odd pixel of the centre crop taken from the leading edge *)
resize_offsets_leading(shape, target_height, target_width) ==
    LET height_diff == target_height - shape.h
        width_diff == target_width - shape.w
        cropped_h == Min(target_height, shape.h)
        cropped_w == Min(target_width, shape.w)
        pad_top == Max(height_diff \div 2, 0)
        pad_left == Max(width_diff \div 2, 0)
    IN  [crop_top |-> Max(CeilDiv(0 - height_diff, 2), 0),
         crop_left |-> Max(CeilDiv(0 - width_diff, 2), 0),
         pad_top |-> pad_top,
         pad_bottom |-> target_height - pad_top - cropped_h,
         pad_left |-> pad_left,
         pad_right |-> target_width - pad_left - cropped_w]

resize_offsets(shape, target_height, target_width) ==
    LET height_diff == target_height - shape.h
        width_diff == target_width - shape.w
        cropped_h == Min(target_height, shape.h)
        cropped_w == Min(target_width, shape.w)
        pad_top == Max(height_diff \div 2, 0)
        pad_left == Max(width_diff \div 2, 0)
    IN  [crop_top |-> Max((0 - height_diff) \div 2, 0),
         crop_left |-> Max((0 - width_diff) \div 2, 0),
         pad_top |-> pad_top,
         pad_bottom |-> target_height - pad_top - cropped_h,
         pad_left |-> pad_left,
         pad_right |-> target_width - pad_left - cropped_w]

resize_with_crop_or_pad(shape, target_height, target_width) ==
    LET o == resize_offsets(shape, target_height, target_width)
        cropped_h == Min(target_height, shape.h)
        cropped_w == Min(target_width, shape.w)
    IN  [shape EXCEPT !.h = o.pad_top + cropped_h + o.pad_bottom,
                      !.w = o.pad_left + cropped_w + o.pad_right]

(* Conv2D / pooling output sizes *)
conv_same(d, stride) == CeilDiv(d, stride)
conv_valid(d, kernel, stride) ==
    IF d < kernel THEN 0 ELSE ((d - kernel) \div stride) + 1

UpSampling2D(shape, size) == [shape EXCEPT !.h = @ * size, !.w = @ * size]

(* tf.concat along the channel axis: every other dimension must agree *)
concat_defined(shapes) ==
    \A i \in 1..Len(shapes) :
        /\ shapes[i].n = shapes[1].n
        /\ shapes[i].h = shapes[1].h
        /\ shapes[i].w = shapes[1].w

RECURSIVE SumChannels(_)
SumChannels(shapes) ==
    IF shapes = <<>> THEN 0 ELSE Head(shapes).c + SumChannels(Tail(shapes))

tf_concat(shapes) == [shapes[1] EXCEPT !.c = SumChannels(shapes)]

(* seq[-k:] *)
LastN(seq, k) ==
    IF Len(seq) <= k THEN seq ELSE SubSeq(seq, Len(seq) - k + 1, Len(seq))

---------------------------------------------------------------------------
(* pad_to_stride (experiments/baseline_fastfcn.py) *)

(* mutant: the remainder itself taken as the amount to pad *)
missing_remainder(d, stride) == d % stride

missing(d, stride) == stride - (d % stride)

pad_before(d, stride) == missing(d, stride) \div 2

(* mutant: the larger half not rounded up *)
pad_after_floor(d, stride) == missing(d, stride) \div 2

pad_after(d, stride) == CeilDiv(missing(d, stride), 2)

pad_to_stride_paddings(shape, stride) ==
    [top |-> pad_before(shape.h, stride), bottom |-> pad_after(shape.h, stride),
     left |-> pad_before(shape.w, stride), right |-> pad_after(shape.w, stride)]

pad_to_stride_defined(shape, stride, mode) ==
    tf_pad_defined(shape, pad_to_stride_paddings(shape, stride), mode)

pad_to_stride(shape, stride) ==
    tf_pad(shape, pad_to_stride_paddings(shape, stride))


---------------------------------------------------------------------------
(* ResNet backbone (models/resnet.py) *)

BLOCKS_50 == <<3, 4, 6, 3>>

(* conv_in: 7x7, strides (2, 2), padding 'same', 64 filters *)
conv_in(shape) ==
    Shape(shape.n, conv_same(shape.h, 2), conv_same(shape.w, 2), INITIAL_FILTERS)

(* mutant: the max-pool given 'same' padding *)
pool_in_same(shape) ==
    [shape EXCEPT !.h = conv_same(@, 2), !.w = conv_same(@, 2)]

(* pool_in: MaxPooling2D(pool_size=(2, 2)), default strides and padding *)
pool_in(shape) ==
    [shape EXCEPT !.h = conv_valid(@, 2, 2), !.w = conv_valid(@, 2, 2)]

(* BottleneckBlock: only conv_in is strided, every convolution is 'same' *)
BottleneckBlock_call(shape, filters_in, downsample) ==
    LET strides_in == IF downsample THEN 2 ELSE 1
    IN  Shape(shape.n, conv_same(shape.h, strides_in),
              conv_same(shape.w, strides_in), 4 * filters_in)

(* ResNetLayer: `blocks` bottleneck blocks, the first one downsampling *)
RECURSIVE ResNetLayer_blocks(_, _, _, _)
ResNetLayer_blocks(shape, blocks, initial_features, downsample) ==
    IF blocks = 0 THEN shape
    ELSE ResNetLayer_blocks(
             BottleneckBlock_call(shape, initial_features, downsample),
             blocks - 1, initial_features, FALSE)

ResNetLayer_call(shape, idx) ==
    ResNetLayer_blocks(shape, BLOCKS_50[idx + 1], INITIAL_FILTERS * (2 ^ idx), idx > 0)

(* ResNetBackbone.call returns the running `features` *)
ResNetBackbone_return(feats, outs) == <<feats>>

(* What the full models require of their `backbone` argument: feature maps *)
(* at strides (8, 16, 32) of its input                                    *)
BackboneContract(shape) ==
    << Shape(shape.n, CeilDiv(shape.h, 8), CeilDiv(shape.w, 8), 512),
       Shape(shape.n, CeilDiv(shape.h, 16), CeilDiv(shape.w, 16), 1024),
       Shape(shape.n, CeilDiv(shape.h, 32), CeilDiv(shape.w, 32), 2048) >>

---------------------------------------------------------------------------
(* JPU module and heads (models/fastfcn.py) *)

DILATION_RATES == <<1, 2, 4, 8>>

(* 3x3 'same' convolution to `feats` channels, batch norm, ReLU *)
JPUInputBlock_call(shape, feats) == [shape EXCEPT !.c = feats]

(* separable 3x3 'same' dilated convolution, batch norm, ReLU *)
JPUSeparableBlock_call(shape, feats, dilation_rate) == [shape EXCEPT !.c = feats]

upsampling_s16(shape) == UpSampling2D(shape, 2)
(* mutant: the stride-32 features upsampled like the stride-16 ones *)
upsampling_s32_by_2(shape) == UpSampling2D(shape, 2)

upsampling_s32(shape) == UpSampling2D(shape, 4)

JPU_dilation_parts(ins, feats) ==
    << JPUInputBlock_call(ins[1], feats),
       upsampling_s16(JPUInputBlock_call(ins[2], feats)),
       upsampling_s32(JPUInputBlock_call(ins[3], feats)) >>

JPU_defined(ins, feats) ==
    /\ Len(ins) = 3
    /\ concat_defined(JPU_dilation_parts(ins, feats))

JPU_dilation_outputs(dil_in, feats) ==
    [i \in 1..Len(DILATION_RATES) |->
        JPUSeparableBlock_call(dil_in, feats, DILATION_RATES[i])]

JPUModule_call(dil_in, feats) == tf_concat(JPU_dilation_outputs(dil_in, feats))

(* Heads: 1x1 'valid' convolutions (and a 3x3 'same' one in FCNHead) keep *)
(* the spatial size; conv_out has a single filter                         *)
EncoderHead_call(shape) ==
    LET compressed == [shape EXCEPT !.c = HEAD_FEATURES]
        weighted == compressed
    IN  [weighted EXCEPT !.c = 1]

FCNHeadNoContext_call(shape) ==
    LET compressed == [shape EXCEPT !.c = HEAD_FEATURES]
    IN  [compressed EXCEPT !.c = 1]

FCNHead_call(shape) ==
    LET compressed == [shape EXCEPT !.h = conv_valid(@, 1, 1),
                                    !.w = conv_valid(@, 1, 1),
                                    !.c = TEST_HEAD_FEATURES]
        intermediate == [compressed EXCEPT !.h = conv_same(@, 1),
                                           !.w = conv_same(@, 1)]
    IN  [intermediate EXCEPT !.c = 1]

head_call(model, shape) ==
    CASE model = "FastFCN" -> EncoderHead_call(shape)
      [] model = "FastFCNNoContext" -> FCNHeadNoContext_call(shape)
      [] model = "TestFastFCN" -> FCNHead_call(shape)

(* mutant: every model crops back to the full input size *)
crop_target_full(model, d) == d

(* the height/width the model crops its logits back to *)
crop_target(model, d) ==
    IF model = "TestFastFCN" THEN d ELSE d \div OUTPUT_STRIDE


---------------------------------------------------------------------------
(* Training augmentation (BaselineFCNExperiment._augment_sample)           *)
(*                                                                         *)
(* A mask value v stands for v / MaskDen, a scaling factor k for           *)
(* k / ScaleDen, and CropSize for training_image_size. A grid is a         *)
(* sequence of rows; grid[i][j] is row i, column j.                        *)

Height(grid) == Len(grid)
Width(grid) == IF Len(grid) = 0 THEN 0 ELSE Len(grid[1])

(* tf.round on a / b >= 0: to the nearest integer, halves to the even one *)
RoundHalfEven(a, b) ==
    LET q == a \div b
        r == a % b
    IN  IF 2 * r < b THEN q
        ELSE IF 2 * r > b THEN q + 1
        ELSE IF q % 2 = 0 THEN q ELSE q + 1

(* _augment_blur: reflection pad by kernel_size // 2, 'VALID' convolution *)
augment_blur_defined(shape) ==
    LET half_kernel_size == AUGMENTATION_BLUR_SIZE \div 2
    IN  half_kernel_size <= shape.h - 1 /\ half_kernel_size <= shape.w - 1

augment_blur(shape) ==
    LET half_kernel_size == AUGMENTATION_BLUR_SIZE \div 2
    IN  [h |-> conv_valid(shape.h + 2 * half_kernel_size, AUGMENTATION_BLUR_SIZE, 1),
         w |-> conv_valid(shape.w + 2 * half_kernel_size, AUGMENTATION_BLUR_SIZE, 1)]

(* mutant: the scaled size kept at least as large as the crop *)
scaled_size_clamped(shape, factor) ==
    << Max(RoundHalfEven(shape.h * factor, ScaleDen), CropSize),
       Max(RoundHalfEven(shape.w * factor, ScaleDen), CropSize) >>

(* scaled_size = round((input_height * f, input_width * f)) *)
scaled_size_of(shape, factor) ==
    << RoundHalfEven(shape.h * factor, ScaleDen),
       RoundHalfEven(shape.w * factor, ScaleDen) >>

(* tf.image.resize(method='nearest'): output row i reads the input row    *)
(* under the centre of output pixel i                                     *)
nearest_index(i, in_size, out_size) ==
    Min(((2 * i - 1) * in_size) \div (2 * out_size), in_size - 1) + 1

resize_nearest(grid, size) ==
    [i \in 1..size[1] |->
        [j \in 1..size[2] |->
            grid[nearest_index(i, Height(grid), size[1])]
                [nearest_index(j, Width(grid), size[2])]]]

(* tf.image.resize(method='bilinear') of the image: the pixels of the     *)
(* scaled image, each named by its place in it                            *)
resize_image(shape, size) ==
    [i \in 1..size[1] |-> [j \in 1..size[2] |-> <<i, j>>]]

(* tf.concat((scaled_image, scaled_mask), axis=-1) *)
concat_sample(img, msk) ==
    [i \in 1..Height(img) |->
        [j \in 1..Width(img) |-> [img |-> img[i][j], mask |-> msk[i][j]]]]

flip_left_right(grid) ==
    [i \in 1..Height(grid) |->
        [j \in 1..Width(grid) |-> grid[i][Width(grid) + 1 - j]]]

flip_up_down(grid) ==
    [i \in 1..Height(grid) |->
        [j \in 1..Width(grid) |-> grid[Height(grid) + 1 - i][j]]]

(* mutant: the sample flipped top to bottom *)
random_flip_up_down(grid, flipped) ==
    IF flipped THEN flip_up_down(grid) ELSE grid

(* tf.image.random_flip_left_right, `flipped` being its draw *)
random_flip_left_right(grid, flipped) ==
    IF flipped THEN flip_left_right(grid) ELSE grid

transpose(grid) ==
    [i \in 1..Width(grid) |-> [j \in 1..Height(grid) |-> grid[j][i]]]

(* mutant: every turn a half turn *)
rot180(grid, k) ==
    IF k % 2 = 0 THEN grid ELSE flip_up_down(flip_left_right(grid))

(* tf.image.rot90(image, k): k counter-clockwise quarter turns, k mod 4 *)
rot90(grid, k) ==
    CASE k % 4 = 0 -> grid
      [] k % 4 = 1 -> transpose(flip_left_right(grid))
      [] k % 4 = 2 -> flip_up_down(flip_left_right(grid))
      [] k % 4 = 3 -> flip_left_right(transpose(grid))

(* tf.image.random_crop: the tensor must be at least as large as the crop *)
random_crop_defined(grid, size) ==
    Height(grid) >= size /\ Width(grid) >= size

crop_offsets(grid, size) ==
    {<<top, left>> : top \in 0..(Height(grid) - size),
                     left \in 0..(Width(grid) - size)}

random_crop(grid, offset, size) ==
    [i \in 1..size |-> [j \in 1..size |-> grid[offset[1] + i][offset[2] + j]]]

(* cropped_sample[:, :, :3] and cropped_sample[:, :, 3:] *)
image_channels(grid) ==
    [i \in 1..Height(grid) |-> [j \in 1..Width(grid) |-> grid[i][j].img]]

(* mutant: the mask channel read mirrored *)
mask_channel_mirrored(grid) ==
    [i \in 1..Height(grid) |->
        [j \in 1..Width(grid) |-> grid[i][Width(grid) + 1 - j].mask]]

mask_channel(grid) ==
    [i \in 1..Height(grid) |-> [j \in 1..Width(grid) |-> grid[i][j].mask]]

(* tf.py_function(convert_colorspace, [output_image]): every pixel of the  *)
(* image replaced by its CIE Lab value, shape kept                        *)
py_function_convert_colorspace(grid) ==
    [i \in 1..Height(grid) |->
        [j \in 1..Width(grid) |-> [lab |-> grid[i][j]]]]

(* mutant: the mask handed on as cropped *)
round_mask_skipped(grid) == grid

(* output_mask = tf.round(output_mask) *)
round_mask(grid) ==
    [i \in 1..Height(grid) |->
        [j \in 1..Width(grid) |-> MaskDen * RoundHalfEven(grid[i][j], MaskDen)]]

---------------------------------------------------------------------------
(* The calls, step by step *)

InputShapes == {Shape(n, h, w, RGB_CHANNELS) : n \in 1..MaxBatch, h \in Dims, w \in Dims}

(* Feature triples as a backbone hands them on: strides 8, 16 and 32 *)
FeatureTriples ==
    { << Shape(n, h, w, 512),
         Shape(n, CeilDiv(h, 2), CeilDiv(w, 2), 1024),
         Shape(n, CeilDiv(h, 4), CeilDiv(w, 4), 2048) >> :
      n \in 1..MaxBatch, h \in FeatDims, w \in FeatDims }

InitShapeIdle ==
    /\ pc = "start"
    /\ paddings = NoPaddings
    /\ padded_inputs = NoShape
    /\ features = NoShape
    /\ layer_number = 0
    /\ layer_outputs = <<>>
    /\ backbone_out = <<>>
    /\ dilation_inputs = NoShape
    /\ upsampled_features = NoShape
    /\ small_outputs = NoShape
    /\ padded_outputs = NoShape
    /\ crop = NoCrop
    /\ outputs = NoShape

InitAugIdle ==
    /\ apc = "idle"
    /\ image = [h |-> 0, w |-> 0]
    /\ mask = <<>>
    /\ do_blur = FALSE
    /\ blurred_image = [h |-> 0, w |-> 0]
    /\ scaling_factor = 0
    /\ scaled_size = <<0, 0>>
    /\ scaled_image = <<>>
    /\ scaled_mask = <<>>
    /\ concatenated_sample = <<>>
    /\ flip = FALSE
    /\ flipped_sample = <<>>
    /\ num_rotations = 0
    /\ rotated_sample = <<>>
    /\ crop_offset = <<0, 0>>
    /\ cropped_sample = <<>>
    /\ output_image = <<>>
    /\ output_mask = <<>>
    /\ output_image_lab = <<>>

(* no model constructed *)
InitOwnIdle ==
    /\ next_object = 1
    /\ caller_backbones = {}
    /\ model_instances = <<>>

(* no configured object constructed *)
InitConfigurationIdle ==
    /\ keras_validates = FALSE
    /\ layers = <<>>
    /\ construction_result = "none"

(* no colour conversion in progress *)
InitColourIdle ==
    /\ cpc = "idle"
    /\ images = <<>>
    /\ images_lab = <<>>

(* no BottleneckBlock called *)
InitBlockIdle ==
    /\ bpc = "idle"
    /\ block = <<>>
    /\ block_features = <<>>
    /\ block_output = <<>>

(* no blur step in progress *)
InitBlurIdle ==
    /\ kpc = "idle"
    /\ blur_size = 0
    /\ sigma_squared = 0
    /\ blur_image = <<>>
    /\ blur_mask = <<>>
    /\ blur_selected = FALSE
    /\ blur_output = <<>>

(* nothing of default in progress *)
InitDefaultIdle ==
    /\ dpc = "idle"
    /\ default_factor = 0
    /\ default_blurred = <<>>
    /\ default_scaled_size = <<>>
    /\ default_rotated = <<>>
    /\ default_output = <<>>

(* nothing of runs in progress *)
InitRunsIdle ==
    /\ run_pc = <<>>
    /\ run_tag = <<>>
    /\ run_directory = <<>>
    /\ fs_directories = {}
    /\ fs_files = {}

InitUnitIdle ==
    /\ InitConfigurationIdle
    /\ InitColourIdle
    /\ InitBlockIdle
    /\ InitBlurIdle
    /\ InitDefaultIdle
    /\ InitRunsIdle

(* no run() in progress *)
NoParameters == <<>>

InitHarnessIdle ==
    /\ experiment_class = "none"
    /\ rpc = "idle"
    /\ seed_calls = 0
    /\ args = <<>>
    /\ experiment_parameters = NoParameters
    /\ parameters = NoParameters
    /\ self_parameters = NoParameters
    /\ build_calls = 0
    /\ parameters_seen = {}
    /\ directories = {}
    /\ experiment_directory = ""
    /\ logging_ready = FALSE
    /\ keras_helper = FALSE
    /\ parameters_json = NoParameters
    /\ classifier = "None"
    /\ test_prediction_input = <<>>
    /\ test_prediction = <<>>
    /\ submission = <<>>
    /\ sample_index = 0
    /\ predicted_segmentation = <<>>
    /\ patch_y = 0
    /\ patch_x = 0
    /\ trial = 0
    /\ raised = "none"

Init ==
    /\ InitShapeIdle
    /\ InitAugIdle
    /\ InitHarnessIdle
    /\ InitOwnIdle
    /\ InitUnitIdle
    /\ \/ /\ callee = "pad_to_stride"
          /\ inputs \in InputShapes
          /\ target_stride \in Strides
          /\ jpu_features = 0
          /\ intermediate_features = <<>>
       \/ /\ callee \in Models
          /\ inputs \in InputShapes
          /\ target_stride = MODEL_STRIDE
          /\ jpu_features \in FeatureCounts
          /\ intermediate_features = <<>>
       \/ /\ callee = "ResNetBackbone"
          /\ inputs \in InputShapes
          /\ target_stride = 0
          /\ jpu_features = 0
          /\ intermediate_features = <<>>
       \/ /\ callee = "JPUModule"
          /\ inputs = NoShape
          /\ target_stride = 0
          /\ jpu_features \in FeatureCounts
          /\ intermediate_features \in FeatureTriples

(* pad_to_stride(inputs, target_stride, mode='REFLECT'), called directly or *)
(* as the first statement of a full model's call                            *)
PadToStride ==
    /\ callee \in Models \cup {"pad_to_stride"}
    /\ pc = "start"
    /\ paddings' = pad_to_stride_paddings(inputs, target_stride)
    /\ IF pad_to_stride_defined(inputs, target_stride, "REFLECT")
       THEN /\ padded_inputs' = pad_to_stride(inputs, target_stride)
            /\ pc' = IF callee = "pad_to_stride" THEN "done" ELSE "padded"
            /\ outputs' = IF callee = "pad_to_stride"
                          THEN pad_to_stride(inputs, target_stride) ELSE outputs
       ELSE /\ pc' = "error"
            /\ UNCHANGED <<padded_inputs, outputs>>
    /\ UNCHANGED <<callee, inputs, target_stride, features, layer_number,
                   layer_outputs, backbone_out, intermediate_features,
                   jpu_features, dilation_inputs, upsampled_features,
                   small_outputs, padded_outputs, crop>>
    /\ UNCHANGED <<augVars, harnessVars, ownVars, unitVars>>

(* intermediate_features = self.backbone(padded_inputs)[-3:] *)
ModelBackbone ==
    /\ callee \in Models
    /\ pc = "padded"
    /\ backbone_out' = BackboneContract(padded_inputs)
    /\ intermediate_features' = LastN(BackboneContract(padded_inputs), 3)
    /\ pc' = "backbone"
    /\ UNCHANGED <<callee, inputs, target_stride, paddings, padded_inputs,
                   features, layer_number, layer_outputs, jpu_features,
                   dilation_inputs, upsampled_features, small_outputs,
                   padded_outputs, crop, outputs>>
    /\ UNCHANGED <<augVars, harnessVars, ownVars, unitVars>>

(* JPUModule.call, inside a full model or on its own *)
JPUCall ==
    /\ \/ callee \in Models /\ pc = "backbone"
       \/ callee = "JPUModule" /\ pc = "start"
    /\ IF JPU_defined(intermediate_features, jpu_features)
       THEN LET dil_in == tf_concat(JPU_dilation_parts(intermediate_features,
                                                       jpu_features))
                out == JPUModule_call(dil_in, jpu_features)
            IN  /\ dilation_inputs' = dil_in
                /\ upsampled_features' = out
                /\ pc' = IF callee = "JPUModule" THEN "done" ELSE "jpu"
                /\ outputs' = IF callee = "JPUModule" THEN out ELSE outputs
       ELSE /\ pc' = "error"
            /\ UNCHANGED <<dilation_inputs, upsampled_features, outputs>>
    /\ UNCHANGED <<callee, inputs, target_stride, paddings, padded_inputs,
                   features, layer_number, layer_outputs, backbone_out,
                   intermediate_features, jpu_features, small_outputs,
                   padded_outputs, crop>>
    /\ UNCHANGED <<augVars, harnessVars, ownVars, unitVars>>

(* small_outputs = self.head(upsampled_features) *)
ModelHead ==
    /\ callee \in Models
    /\ pc = "jpu"
    /\ small_outputs' = head_call(callee, upsampled_features)
    /\ pc' = "head"
    /\ UNCHANGED <<callee, inputs, target_stride, paddings, padded_inputs,
                   features, layer_number, layer_outputs, backbone_out,
                   intermediate_features, jpu_features, dilation_inputs,
                   upsampled_features, padded_outputs, crop, outputs>>
    /\ UNCHANGED <<augVars, harnessVars, ownVars, unitVars>>

(* mutant: the logits upsampled by 4 only *)
output_upsampling_by_4(shape) == UpSampling2D(shape, 4)

(* self.output_upsampling = UpSampling2D(size=(8, 8)) *)
output_upsampling(shape) == UpSampling2D(shape, OUTPUT_UPSAMPLING)

(* TestFastFCN only: padded_outputs = self.output_upsampling(small_outputs) *)
ModelOutputUpsampling ==
    /\ callee = "TestFastFCN"
    /\ pc = "head"
    /\ padded_outputs' = output_upsampling(small_outputs)
    /\ pc' = "upsampled"
    /\ UNCHANGED <<callee, inputs, target_stride, paddings, padded_inputs,
                   features, layer_number, layer_outputs, backbone_out,
                   intermediate_features, jpu_features, dilation_inputs,
                   upsampled_features, small_outputs, crop, outputs>>
    /\ UNCHANGED <<augVars, harnessVars, ownVars, unitVars>>

(* tf.image.resize_with_crop_or_pad back to the input size (TestFastFCN) or *)
(* to input // 8 (FastFCN, FastFCNNoContext)                                *)
ModelCrop ==
    /\ \/ callee \in {"FastFCN", "FastFCNNoContext"} /\ pc = "head"
       \/ callee = "TestFastFCN" /\ pc = "upsampled"
    /\ LET source == IF callee = "TestFastFCN" THEN padded_outputs ELSE small_outputs
           target_height == crop_target(callee, inputs.h)
           target_width == crop_target(callee, inputs.w)
       IN  IF resize_defined(target_height, target_width)
           THEN /\ crop' = resize_offsets(source, target_height, target_width)
                /\ outputs' = resize_with_crop_or_pad(source, target_height, target_width)
                /\ pc' = "done"
           ELSE /\ pc' = "error"
                /\ UNCHANGED <<crop, outputs>>
    /\ UNCHANGED <<callee, inputs, target_stride, paddings, padded_inputs,
                   features, layer_number, layer_outputs, backbone_out,
                   intermediate_features, jpu_features, dilation_inputs,
                   upsampled_features, small_outputs, padded_outputs>>
    /\ UNCHANGED <<augVars, harnessVars, ownVars, unitVars>>

(* ResNetBackbone.call: conv1 *)
BackboneConv1 ==
    /\ callee = "ResNetBackbone"
    /\ pc = "start"
    /\ features' = conv_in(inputs)
    /\ pc' = "conv1"
    /\ UNCHANGED <<callee, inputs, target_stride, paddings, padded_inputs,
                   layer_number, layer_outputs, backbone_out,
                   intermediate_features, jpu_features, dilation_inputs,
                   upsampled_features, small_outputs, padded_outputs, crop,
                   outputs>>
    /\ UNCHANGED <<augVars, harnessVars, ownVars, unitVars>>

(* ResNetBackbone.call: the max-pool that opens conv2 *)
BackbonePool ==
    /\ callee = "ResNetBackbone"
    /\ pc = "conv1"
    /\ features' = pool_in(features)
    /\ layer_number' = 2
    /\ pc' = "layers"
    /\ UNCHANGED <<callee, inputs, target_stride, paddings, padded_inputs,
                   layer_outputs, backbone_out, intermediate_features,
                   jpu_features, dilation_inputs, upsampled_features,
                   small_outputs, padded_outputs, crop, outputs>>
    /\ UNCHANGED <<augVars, harnessVars, ownVars, unitVars>>

(* ResNetBackbone.call: one turn of the loop over self.residual_layers *)
BackboneLayer ==
    /\ callee = "ResNetBackbone"
    /\ pc = "layers"
    /\ layer_number - 1 <= Len(BLOCKS_50)
    /\ features' = ResNetLayer_call(features, layer_number - 2)
    /\ layer_outputs' = Append(layer_outputs, ResNetLayer_call(features, layer_number - 2))
    /\ layer_number' = layer_number + 1
    /\ UNCHANGED <<callee, pc, inputs, target_stride, paddings, padded_inputs,
                   backbone_out, intermediate_features, jpu_features,
                   dilation_inputs, upsampled_features, small_outputs,
                   padded_outputs, crop, outputs>>
    /\ UNCHANGED <<augVars, harnessVars, ownVars, unitVars>>

(* ResNetBackbone.call: return *)
BackboneReturn ==
    /\ callee = "ResNetBackbone"
    /\ pc = "layers"
    /\ layer_number - 1 > Len(BLOCKS_50)
    /\ backbone_out' = ResNetBackbone_return(features, layer_outputs)
    /\ pc' = "done"
    /\ UNCHANGED <<callee, inputs, target_stride, paddings, padded_inputs,
                   features, layer_number, layer_outputs,
                   intermediate_features, jpu_features, dilation_inputs,
                   upsampled_features, small_outputs, padded_outputs, crop,
                   outputs>>
    /\ UNCHANGED <<augVars, harnessVars, ownVars, unitVars>>

Next ==
    \/ PadToStride
    \/ ModelBackbone
    \/ JPUCall
    \/ ModelHead
    \/ ModelOutputUpsampling
    \/ ModelCrop
    \/ BackboneConv1
    \/ BackbonePool
    \/ BackboneLayer
    \/ BackboneReturn

Spec == Init /\ [][Next]_vars


---------------------------------------------------------------------------
(* _augment_sample, statement by statement *)

(* images the 5x5 blur can reflect-pad: at least 3 x 3 *)
AugDims == ((AUGMENTATION_BLUR_SIZE \div 2) + 1)..MaxAugDim
ImageShapes == {[h |-> h, w |-> w] : h \in AugDims, w \in AugDims}

(* the mask has the image's size, or one more row, or one more column *)
MaskShapes(img) ==
    {img, [img EXCEPT !.h = @ + 1], [img EXCEPT !.w = @ + 1]}

(* masks with values in [0, 1]: v / MaskDen for v in 0..MaskDen *)
MaskGrids(shape) ==
    { [i \in 1..shape.h |-> [j \in 1..shape.w |-> (a * i + b * j) % (MaskDen + 1)]] :
      a \in 0..MaskDen, b \in 0..MaskDen }

ScalingFactors == (ScaleDen - 1)..(ScaleDen + 1)

InitAugment ==
    /\ InitShapeIdle
    /\ InitHarnessIdle
    /\ InitOwnIdle
    /\ InitUnitIdle
    /\ callee = "_augment_sample"
    /\ inputs = NoShape
    /\ target_stride = 0
    /\ jpu_features = 0
    /\ intermediate_features = <<>>
    /\ apc = "start"
    /\ image \in ImageShapes
    /\ \E shape \in MaskShapes(image) : mask \in MaskGrids(shape)
    /\ do_blur = FALSE
    /\ blurred_image = [h |-> 0, w |-> 0]
    /\ scaling_factor = 0
    /\ scaled_size = <<0, 0>>
    /\ scaled_image = <<>>
    /\ scaled_mask = <<>>
    /\ concatenated_sample = <<>>
    /\ flip = FALSE
    /\ flipped_sample = <<>>
    /\ num_rotations = 0
    /\ rotated_sample = <<>>
    /\ crop_offset = <<0, 0>>
    /\ cropped_sample = <<>>
    /\ output_image = <<>>
    /\ output_mask = <<>>
    /\ output_image_lab = <<>>

(* do_blur = uniform() < probability; blurred_image = tf.cond(...) *)
AugBlur ==
    /\ apc = "start"
    /\ \E draw \in BOOLEAN :
        /\ do_blur' = draw
        /\ IF draw /\ ~augment_blur_defined(image)
           THEN /\ apc' = "error"
                /\ UNCHANGED blurred_image
           ELSE /\ blurred_image' = IF draw THEN augment_blur(image) ELSE image
                /\ apc' = "blurred"
    /\ UNCHANGED <<image, mask, scaling_factor, scaled_size, scaled_image,
                   scaled_mask, concatenated_sample, flip, flipped_sample,
                   num_rotations, rotated_sample, crop_offset, cropped_sample,
                   output_image, output_mask>>
    /\ UNCHANGED output_image_lab
    /\ UNCHANGED <<shapeVars, harnessVars, ownVars, unitVars>>

(* scaling_factor, scaled_size, scaled_image, scaled_mask *)
AugScale ==
    /\ apc = "blurred"
    /\ \E factor \in ScalingFactors :
        /\ scaling_factor' = factor
        /\ scaled_size' = scaled_size_of(blurred_image, factor)
        /\ scaled_image' = resize_image(blurred_image, scaled_size_of(blurred_image, factor))
        /\ scaled_mask' = resize_nearest(mask, scaled_size_of(blurred_image, factor))
    /\ apc' = "scaled"
    /\ UNCHANGED <<image, mask, do_blur, blurred_image, concatenated_sample,
                   flip, flipped_sample, num_rotations, rotated_sample,
                   crop_offset, cropped_sample, output_image, output_mask>>
    /\ UNCHANGED output_image_lab
    /\ UNCHANGED <<shapeVars, harnessVars, ownVars, unitVars>>

(* concatenated_sample = tf.concat((scaled_image, scaled_mask), axis=-1) *)
AugConcat ==
    /\ apc = "scaled"
    /\ concatenated_sample' = concat_sample(scaled_image, scaled_mask)
    /\ apc' = "concatenated"
    /\ UNCHANGED <<image, mask, do_blur, blurred_image, scaling_factor,
                   scaled_size, scaled_image, scaled_mask, flip, flipped_sample,
                   num_rotations, rotated_sample, crop_offset, cropped_sample,
                   output_image, output_mask>>
    /\ UNCHANGED output_image_lab
    /\ UNCHANGED <<shapeVars, harnessVars, ownVars, unitVars>>

(* flipped_sample = tf.image.random_flip_left_right(concatenated_sample) *)
AugFlip ==
    /\ apc = "concatenated"
    /\ \E draw \in BOOLEAN :
        /\ flip' = draw
        /\ flipped_sample' = random_flip_left_right(concatenated_sample, draw)
    /\ apc' = "flipped"
    /\ UNCHANGED <<image, mask, do_blur, blurred_image, scaling_factor,
                   scaled_size, scaled_image, scaled_mask, concatenated_sample,
                   num_rotations, rotated_sample, crop_offset, cropped_sample,
                   output_image, output_mask>>
    /\ UNCHANGED output_image_lab
    /\ UNCHANGED <<shapeVars, harnessVars, ownVars, unitVars>>

(* num_rotations = uniform(minval=0, maxval=4); rot90(flipped_sample, ...) *)
AugRotate ==
    /\ apc = "flipped"
    /\ \E k \in 0..3 :
        /\ num_rotations' = k
        /\ rotated_sample' = rot90(flipped_sample, k)
    /\ apc' = "rotated"
    /\ UNCHANGED <<image, mask, do_blur, blurred_image, scaling_factor,
                   scaled_size, scaled_image, scaled_mask, concatenated_sample,
                   flip, flipped_sample, crop_offset, cropped_sample,
                   output_image, output_mask>>
    /\ UNCHANGED output_image_lab
    /\ UNCHANGED <<shapeVars, harnessVars, ownVars, unitVars>>

(* cropped_sample = tf.image.random_crop(rotated_sample, crop_size) *)
AugCrop ==
    /\ apc = "rotated"
    /\ IF random_crop_defined(rotated_sample, CropSize)
       THEN \E offset \in crop_offsets(rotated_sample, CropSize) :
                /\ crop_offset' = offset
                /\ cropped_sample' = random_crop(rotated_sample, offset, CropSize)
                /\ apc' = "cropped"
       ELSE /\ apc' = "error"
            /\ UNCHANGED <<crop_offset, cropped_sample>>
    /\ UNCHANGED <<image, mask, do_blur, blurred_image, scaling_factor,
                   scaled_size, scaled_image, scaled_mask, concatenated_sample,
                   flip, flipped_sample, num_rotations, rotated_sample,
                   output_image, output_mask>>
    /\ UNCHANGED output_image_lab
    /\ UNCHANGED <<shapeVars, harnessVars, ownVars, unitVars>>

(* output_image = cropped_sample[:, :, :3]; output_mask = ...[:, :, 3:] *)
AugSplit ==
    /\ apc = "cropped"
    /\ output_image' = image_channels(cropped_sample)
    /\ output_mask' = mask_channel(cropped_sample)
    /\ apc' = "split"
    /\ UNCHANGED <<image, mask, do_blur, blurred_image, scaling_factor,
                   scaled_size, scaled_image, scaled_mask, concatenated_sample,
                   flip, flipped_sample, num_rotations, rotated_sample,
                   crop_offset, cropped_sample>>
    /\ UNCHANGED output_image_lab
    /\ UNCHANGED <<shapeVars, harnessVars, ownVars, unitVars>>

(* output_mask = tf.round(output_mask) *)
AugRound ==
    /\ apc = "split"
    /\ output_mask' = round_mask(output_mask)
    /\ apc' = "rounded"
    /\ UNCHANGED <<image, mask, do_blur, blurred_image, scaling_factor,
                   scaled_size, scaled_image, scaled_mask, concatenated_sample,
                   flip, flipped_sample, num_rotations, rotated_sample,
                   crop_offset, cropped_sample, output_image>>
    /\ UNCHANGED output_image_lab
    /\ UNCHANGED <<shapeVars, harnessVars, ownVars, unitVars>>

(* mutant: the image converted as soon as it is split off, the mask left *)
(* unrounded                                                             *)
AugConvertBeforeRound ==
    /\ apc = "split"
    /\ output_image_lab' = py_function_convert_colorspace(output_image)
    /\ apc' = "done"
    /\ UNCHANGED <<image, mask, do_blur, blurred_image, scaling_factor,
                   scaled_size, scaled_image, scaled_mask, concatenated_sample,
                   flip, flipped_sample, num_rotations, rotated_sample,
                   crop_offset, cropped_sample, output_image, output_mask>>
    /\ UNCHANGED <<shapeVars, harnessVars, ownVars, unitVars>>

(* convert_colorspace on the image, then return output_image_lab, output_mask *)
AugConvertReturn ==
    /\ apc = "rounded"
    /\ output_image_lab' = py_function_convert_colorspace(output_image)
    /\ apc' = "done"
    /\ UNCHANGED <<image, mask, do_blur, blurred_image, scaling_factor,
                   scaled_size, scaled_image, scaled_mask, concatenated_sample,
                   flip, flipped_sample, num_rotations, rotated_sample,
                   crop_offset, cropped_sample, output_image, output_mask>>
    /\ UNCHANGED <<shapeVars, harnessVars, ownVars, unitVars>>

NextAugment ==
    \/ AugBlur
    \/ AugScale
    \/ AugConcat
    \/ AugFlip
    \/ AugRotate
    \/ AugCrop
    \/ AugSplit
    \/ AugRound
    \/ AugConvertReturn

SpecAugment == InitAugment /\ [][NextAugment]_vars

---------------------------------------------------------------------------
(* Experiment harness (framework.py) and the baseline experiment's part    *)
(* in it. Mappings are functions from keys (strings) to values.            *)

MaxPatches == 3
MaxSamples == 2
MaxTrials == 1

(* rs.data.cil.PATCH_SIZE *)
PATCH_SIZE == 16

EXPERIMENT_TAG == "baseline_fcn"

(* str.startswith *)
startswith(key, prefix) ==
    Len(key) >= Len(prefix) /\ SubSeq(key, 1, Len(prefix)) = prefix

(* mutant: the reserved prefix looked for anywhere but at the start *)
has_reserved_key_inside(mapping) ==
    \E key \in DOMAIN mapping :
        \E n \in 2..Len(key) : startswith(SubSeq(key, n, Len(key)), "base_")

(* any(filter(lambda key: ... str(key).startswith('base_'), keys())) *)
has_reserved_key(mapping) ==
    \E key \in DOMAIN mapping : startswith(key, "base_")

(* parameters[key] = value *)
dict_set(mapping, key, value) ==
    [k \in DOMAIN mapping \cup {key} |-> IF k = key THEN value ELSE mapping[k]]

(* parameters.update(other) *)
dict_update(mapping, other) ==
    [k \in DOMAIN mapping \cup DOMAIN other |->
        IF k \in DOMAIN other THEN other[k] ELSE mapping[k]]

(* BaseExperiment._build_parameter_dict, after the validation *)
general_parameters(mapping, a) ==
    dict_set(dict_set(dict_set(mapping, "base_data_directory", a.datadir),
                      "base_log_directory", a.logdir),
             "base_is_debug", a.debug)

(* SearchExperiment._build_parameter_dict, after the call to super *)
search_parameters(mapping, a) ==
    dict_update(mapping,
                [base_search_initial_trials |-> a.initial_trials,
                 base_search_optimised_trials |-> a.optimised_trials,
                 base_search_folds |-> a.folds])

(* BaselineFCNExperiment.build_parameter_dict *)
Baseline_build_parameter_dict(a) ==
    [jpu_features |-> HEAD_FEATURES,
     weight_decay |-> a.weight_decay,
     output_upsampling |-> "nearest",
     batch_size |-> a.batch_size,
     initial_learning_rate |-> a.learning_rate,
     end_learning_rate |-> "1e-8",
     learning_rate_decay |-> "0.9",
     momentum |-> a.momentum,
     epochs |-> a.epochs,
     augmentation_max_relative_scaling |-> "0.04",
     augmentation_interpolation |-> "bilinear",
     augmentation_blur_probability |-> "0.5",
     augmentation_blur_size |-> AUGMENTATION_BLUR_SIZE,
     training_image_size |-> <<384, 384>>]

(* json.dump(self.parameters, f): every key with its value *)
json_dump(mapping) == [k \in DOMAIN mapping |-> mapping[k]]

(* os.path.join(base_log_directory, f'{tag}_{now:%y%m%d-%H%M%S}') *)
directory_path(logdir, tag, now) == logdir \o "/" \o tag \o "_" \o now

(* decimal digits of n >= 0 *)
RECURSIVE decimal(_)
decimal(n) ==
    LET digit(d) == SubSeq("0123456789", d + 1, d + 1)
    IN  IF n < 10 THEN digit(n) ELSE decimal(n \div 10) \o digit(n % 10)

(* f'{sample_id:03d}' *)
format_03d(n) ==
    LET digits == decimal(n)
    IN  IF Len(digits) >= 3 THEN digits
        ELSE IF Len(digits) = 2 THEN "0" \o digits
        ELSE "00" \o digits

(* mutant: the offsets written without separators *)
create_output_id_joined(sample_id, x, y) ==
    format_03d(sample_id) \o decimal(x * PATCH_SIZE) \o decimal(y * PATCH_SIZE)

(* FitExperiment._create_output_id(sample_id, patch_x, patch_y) *)
create_output_id(sample_id, x, y) ==
    format_03d(sample_id) \o "_" \o decimal(x * PATCH_SIZE)
                         \o "_" \o decimal(y * PATCH_SIZE)

(* np.squeeze on a shape: every axis of length one removed *)
squeeze(shape) ==
    LET kept(d) == d # 1
    IN  SelectSeq(shape, kept)

(* input_size // PATCH_SIZE, per axis *)
expected_segmentation_size(input_size) ==
    <<input_size[1] \div PATCH_SIZE, input_size[2] \div PATCH_SIZE>>

(* TestFastFCN.call on one image, as a function of the input shape *)
TestFastFCN_defined(shape) ==
    /\ pad_to_stride_defined(shape, MODEL_STRIDE, "REFLECT")
    /\ resize_defined(shape.h, shape.w)

TestFastFCN_call(shape, jpu) ==
    LET padded == pad_to_stride(shape, MODEL_STRIDE)
        feats == LastN(BackboneContract(padded), 3)
        upsampled == JPUModule_call(tf_concat(JPU_dilation_parts(feats, jpu)), jpu)
        small == head_call("TestFastFCN", upsampled)
        padded_out == output_upsampling(small)
    IN  resize_with_crop_or_pad(padded_out, shape.h, shape.w)

(* BaselineFCNExperiment.predict for one image: expand_dims, the model,   *)
(* the batch axis unpacked, np.where(raw_prediction >= 0, 1, 0)           *)
Baseline_predict(input_size, jpu) ==
    LET out == TestFastFCN_call(Shape(1, input_size[1], input_size[2], RGB_CHANNELS), jpu)
    IN  <<out.h, out.w, out.c>>

(* predicted_segmentation[patch_y, patch_x] after astype(np.int) *)
segmentation_value(y, x) == (y + x) % 2

---------------------------------------------------------------------------
(* BaseExperiment.run and _run_actual_experiment, step by step *)

ExperimentClasses == {"BaselineFCNExperiment", "FitExperiment", "SearchExperiment"}
FitClasses == {"BaselineFCNExperiment", "FitExperiment"}

tag(class) == IF class = "BaselineFCNExperiment" THEN EXPERIMENT_TAG ELSE "experiment"

Nows == {"200101-120000"}

(* what parse_args can return for each class *)
GeneralArgs == {[datadir |-> "data", logdir |-> "log", debug |-> d] : d \in BOOLEAN}

ArgSets(class) ==
    CASE class = "BaselineFCNExperiment" ->
            {[datadir |-> a.datadir, logdir |-> a.logdir, debug |-> a.debug,
              batch_size |-> 4, learning_rate |-> "1e-2", momentum |-> "0.9",
              weight_decay |-> "1e-4", epochs |-> 240] : a \in GeneralArgs}
      [] class = "SearchExperiment" ->
            {[datadir |-> a.datadir, logdir |-> a.logdir, debug |-> a.debug,
              initial_trials |-> i, optimised_trials |-> o, folds |-> 5] :
             a \in GeneralArgs, i \in 1..MaxTrials, o \in 0..MaxTrials}
      [] OTHER -> GeneralArgs

(* what an experiment's build_parameter_dict can return *)
OtherMappings ==
    {[epochs |-> 1],
     [database_ |-> 1, xbase_x |-> 2],
     [epochs |-> 1, base_ |-> 0],
     [base_is_debug |-> 1],
     [base_search_folds |-> 1, epochs |-> 1]}

ChildMappings(class, a) ==
    IF class = "BaselineFCNExperiment"
    THEN {Baseline_build_parameter_dict(a)} ELSE OtherMappings

FitOutcomes(class) ==
    IF class = "BaselineFCNExperiment"
    THEN {"fitted", "exception", "no data"} ELSE {"fitted", "exception"}

(* test images: all of one size, a multiple of PATCH_SIZE in each axis *)
SampleIds == <<7, 42, 1000, 123>>
ImageSizes == {<<PATCH_SIZE * a, PATCH_SIZE * b>> : a \in 1..MaxPatches, b \in 1..MaxPatches}
TestInputs ==
    {[n \in 1..len |-> [id |-> SampleIds[n], size |-> size]] :
     len \in 0..MaxSamples, size \in ImageSizes}

image_shape(size) == Shape(1, size[1], size[2], RGB_CHANNELS)

(* test_prediction_input[test_sample_id].shape[:2] *)
input_size_of(prediction_input, id) ==
    LET n == CHOOSE k \in 1..Len(prediction_input) : prediction_input[k].id = id
    IN  prediction_input[n].size

(* segmentations another experiment's predict can return for one image *)
OtherPredictionShapes(size) ==
    LET patches == expected_segmentation_size(size)
    IN  {patches,
         <<1, patches[1], patches[2], 1>>,
         <<size[1], size[2], 1>>,
         <<patches[1], patches[2], 2>>}

OtherPredictions(prediction_input) ==
    {prediction \in [1..Len(prediction_input) ->
                        [id : {prediction_input[n].id : n \in 1..Len(prediction_input)},
                         shape : UNION {OtherPredictionShapes(prediction_input[n].size) :
                                        n \in 1..Len(prediction_input)}]] :
        \A n \in 1..Len(prediction_input) :
            /\ prediction[n].id = prediction_input[n].id
            /\ prediction[n].shape \in OtherPredictionShapes(prediction_input[n].size)}

HEADER_ROW == <<"Id", "Prediction">>

(* base_search_initial_trials + base_search_optimised_trials *)
total_trials(mapping) ==
    mapping["base_search_initial_trials"] + mapping["base_search_optimised_trials"]

InitHarness ==
    /\ InitShapeIdle
    /\ InitAugIdle
    /\ InitOwnIdle
    /\ InitUnitIdle
    /\ callee = "run"
    /\ inputs = NoShape
    /\ target_stride = 0
    /\ jpu_features = 0
    /\ intermediate_features = <<>>
    /\ experiment_class \in ExperimentClasses
    /\ rpc = "start"
    /\ seed_calls = 0
    /\ args = <<>>
    /\ experiment_parameters = NoParameters
    /\ parameters = NoParameters
    /\ self_parameters = NoParameters
    /\ build_calls = 0
    /\ parameters_seen = {}
    /\ directories \in SUBSET {directory_path("log", tag(experiment_class), now) : now \in Nows}
    /\ experiment_directory = ""
    /\ logging_ready = FALSE
    /\ keras_helper = FALSE
    /\ parameters_json = NoParameters
    /\ classifier = "None"
    /\ test_prediction_input = <<>>
    /\ test_prediction = <<>>
    /\ submission = <<>>
    /\ sample_index = 0
    /\ predicted_segmentation = <<>>
    /\ patch_y = 0
    /\ patch_x = 0
    /\ trial = 0
    /\ raised = "none"

(* run: rs.util.fix_seeds(self.SEED) *)
RunFixSeeds ==
    /\ rpc = "start"
    /\ seed_calls' = seed_calls + 1
    /\ rpc' = "seeded"
    /\ UNCHANGED <<experiment_class, args, experiment_parameters,
                   parameters, self_parameters, build_calls,
                   parameters_seen, directories, experiment_directory,
                   logging_ready, keras_helper, parameters_json,
                   classifier, test_prediction_input, test_prediction,
                   submission, sample_index, predicted_segmentation,
                   patch_y, patch_x, trial, raised>>
    /\ UNCHANGED <<shapeVars, augVars, ownVars, unitVars>>

(* run: parser = self._create_full_argument_parser(); args = parse_args() *)
RunParseArgs ==
    /\ rpc = "seeded"
    /\ args' \in ArgSets(experiment_class)
    /\ rpc' = "parsed"
    /\ UNCHANGED <<experiment_class, seed_calls, experiment_parameters,
                   parameters, self_parameters, build_calls,
                   parameters_seen, directories, experiment_directory,
                   logging_ready, keras_helper, parameters_json,
                   classifier, test_prediction_input, test_prediction,
                   submission, sample_index, predicted_segmentation,
                   patch_y, patch_x, trial, raised>>
    /\ UNCHANGED <<shapeVars, augVars, ownVars, unitVars>>

(* run: self._parameters = self._build_parameter_dict(args) *)
RunBuildParameterDict ==
    /\ rpc = "parsed"
    /\ build_calls' = build_calls + 1
    /\ \E child \in ChildMappings(experiment_class, args) :
      /\ experiment_parameters' = child
      /\ IF has_reserved_key(child)
        THEN /\ parameters' = child
              /\ raised' = "ValueError"
              /\ rpc' = "raised"
              /\ UNCHANGED self_parameters
        ELSE LET general == general_parameters(child, args)
                  full == IF experiment_class = "SearchExperiment"
                          THEN search_parameters(general, args) ELSE general
              IN  /\ parameters' = full
                  /\ self_parameters' = full
                  /\ rpc' = "built"
                  /\ UNCHANGED raised
    /\ UNCHANGED <<experiment_class, seed_calls, args, parameters_seen,
                   directories, experiment_directory, logging_ready,
                   keras_helper, parameters_json, classifier,
                   test_prediction_input, test_prediction, submission,
                   sample_index, predicted_segmentation, patch_y, patch_x,
                   trial>>
    /\ UNCHANGED <<shapeVars, augVars, ownVars, unitVars>>

(* run: os.makedirs(self._experiment_directory, exist_ok=False) *)
RunMakeDirectory ==
    /\ rpc = "built"
    /\ parameters_seen' = parameters_seen \cup {self_parameters}
    /\ \E now \in Nows, os_error \in BOOLEAN :
        LET path == directory_path(self_parameters["base_log_directory"],
                                   tag(experiment_class), now)
        IN  /\ experiment_directory' = path
            /\ IF path \in directories \/ os_error
               THEN /\ rpc' = "returned"
                    /\ UNCHANGED directories
               ELSE /\ directories' = directories \cup {path}
                    /\ rpc' = "directory"
    /\ UNCHANGED <<experiment_class, seed_calls, args,
                   experiment_parameters, parameters, self_parameters,
                   build_calls, logging_ready, keras_helper,
                   parameters_json, classifier, test_prediction_input,
                   test_prediction, submission, sample_index,
                   predicted_segmentation, patch_y, patch_x, trial, raised>>
    /\ UNCHANGED <<shapeVars, augVars, ownVars, unitVars>>

(* run: self._setup_logging(debug=self.parameters['base_is_debug']) and  *)
(* the two log lines after it                                            *)
RunSetupLogging ==
    /\ rpc = "directory"
    /\ parameters_seen' = parameters_seen \cup {self_parameters}
    /\ logging_ready' = TRUE
    /\ rpc' = "logging"
    /\ UNCHANGED <<experiment_class, seed_calls, args,
                   experiment_parameters, parameters, self_parameters,
                   build_calls, directories, experiment_directory,
                   keras_helper, parameters_json, classifier,
                   test_prediction_input, test_prediction, submission,
                   sample_index, predicted_segmentation, patch_y, patch_x,
                   trial, raised>>
    /\ UNCHANGED <<shapeVars, augVars, ownVars, unitVars>>

(* run: self._keras_helper = KerasHelper(self.experiment_directory) *)
RunCreateHelpers ==
    /\ rpc = "logging"
    /\ keras_helper' = TRUE
    /\ rpc' = "helpers"
    /\ UNCHANGED <<experiment_class, seed_calls, args,
                   experiment_parameters, parameters, self_parameters,
                   build_calls, parameters_seen, directories,
                   experiment_directory, logging_ready, parameters_json,
                   classifier, test_prediction_input, test_prediction,
                   submission, sample_index, predicted_segmentation,
                   patch_y, patch_x, trial, raised>>
    /\ UNCHANGED <<shapeVars, augVars, ownVars, unitVars>>

(* mutant: a failed json.dump is logged and run carries on *)
RunStoreParametersUngated ==
    /\ rpc = "helpers"
    /\ parameters_seen' = parameters_seen \cup {self_parameters}
    /\ \E failed \in BOOLEAN :
        IF failed
        THEN /\ rpc' = "stored"
             /\ UNCHANGED parameters_json
        ELSE /\ parameters_json' = json_dump(self_parameters)
             /\ rpc' = "stored"
    /\ UNCHANGED <<experiment_class, seed_calls, args,
                   experiment_parameters, parameters, self_parameters,
                   build_calls, directories, experiment_directory,
                   logging_ready, keras_helper, classifier,
                   test_prediction_input, test_prediction, submission,
                   sample_index, predicted_segmentation, patch_y, patch_x,
                   trial, raised>>
    /\ UNCHANGED <<shapeVars, augVars, ownVars, unitVars>>

(* run: json.dump(self.parameters, f) into parameters.json *)
RunStoreParameters ==
    /\ rpc = "helpers"
    /\ parameters_seen' = parameters_seen \cup {self_parameters}
    /\ \E failed \in BOOLEAN :
        IF failed
        THEN /\ rpc' = "returned"
             /\ UNCHANGED parameters_json
        ELSE /\ parameters_json' = json_dump(self_parameters)
             /\ rpc' = "stored"
    /\ UNCHANGED <<experiment_class, seed_calls, args,
                   experiment_parameters, parameters, self_parameters,
                   build_calls, directories, experiment_directory,
                   logging_ready, keras_helper, classifier,
                   test_prediction_input, test_prediction, submission,
                   sample_index, predicted_segmentation, patch_y, patch_x,
                   trial, raised>>
    /\ UNCHANGED <<shapeVars, augVars, ownVars, unitVars>>

(* FitExperiment._run_actual_experiment: classifier = self.fit() *)
FitModel ==
    /\ rpc = "stored"
    /\ experiment_class \in FitClasses
    /\ \E outcome \in FitOutcomes(experiment_class) :
        CASE outcome = "exception" ->
                /\ rpc' = "returned"
                /\ UNCHANGED <<classifier, parameters_seen>>
          [] outcome = "no data" ->
                /\ classifier' = "None"
                /\ rpc' = "fitted"
                /\ UNCHANGED parameters_seen
          [] outcome = "fitted" ->
                /\ classifier' = IF experiment_class = "BaselineFCNExperiment"
                                 THEN "TestFastFCN" ELSE "classifier"
                /\ parameters_seen' = parameters_seen \cup {self_parameters}
                /\ rpc' = "fitted"
    /\ UNCHANGED <<experiment_class, seed_calls, args,
                   experiment_parameters, parameters, self_parameters,
                   build_calls, directories, experiment_directory,
                   logging_ready, keras_helper, parameters_json,
                   test_prediction_input, test_prediction, submission,
                   sample_index, predicted_segmentation, patch_y, patch_x,
                   trial, raised>>
    /\ UNCHANGED <<shapeVars, augVars, ownVars, unitVars>>

(* _run_actual_experiment: the test images are read *)
ReadTestInputs ==
    /\ rpc = "fitted"
    /\ \E os_error \in BOOLEAN :
        IF os_error
        THEN /\ rpc' = "returned"
             /\ UNCHANGED test_prediction_input
        ELSE /\ test_prediction_input' \in TestInputs
             /\ rpc' = "inputs_read"
    /\ UNCHANGED <<experiment_class, seed_calls, args,
                   experiment_parameters, parameters, self_parameters,
                   build_calls, parameters_seen, directories,
                   experiment_directory, logging_ready, keras_helper,
                   parameters_json, classifier, test_prediction,
                   submission, sample_index, predicted_segmentation,
                   patch_y, patch_x, trial, raised>>
    /\ UNCHANGED <<shapeVars, augVars, ownVars, unitVars>>

(* _run_actual_experiment: test_prediction = self.predict(classifier, ...) *)
Predict ==
    /\ rpc = "inputs_read"
    /\ IF experiment_class = "BaselineFCNExperiment"
       THEN IF test_prediction_input # <<>> /\ classifier = "None"
            THEN /\ raised' = "AttributeError"
                 /\ rpc' = "raised"
                 /\ UNCHANGED test_prediction
            ELSE IF \E n \in 1..Len(test_prediction_input) :
                       ~TestFastFCN_defined(image_shape(test_prediction_input[n].size))
            THEN /\ raised' = "InvalidArgumentError"
                 /\ rpc' = "raised"
                 /\ UNCHANGED test_prediction
            ELSE /\ test_prediction' =
                        [n \in 1..Len(test_prediction_input) |->
                            [id |-> test_prediction_input[n].id,
                             shape |-> Baseline_predict(test_prediction_input[n].size,
                                                        self_parameters["jpu_features"])]]
                 /\ rpc' = "predicted"
                 /\ UNCHANGED raised
       ELSE /\ test_prediction' \in OtherPredictions(test_prediction_input)
            /\ rpc' = "predicted"
            /\ UNCHANGED raised
    /\ UNCHANGED <<experiment_class, seed_calls, args,
                   experiment_parameters, parameters, self_parameters,
                   build_calls, parameters_seen, directories,
                   experiment_directory, logging_ready, keras_helper,
                   parameters_json, classifier, test_prediction_input,
                   submission, sample_index, predicted_segmentation,
                   patch_y, patch_x, trial>>
    /\ UNCHANGED <<shapeVars, augVars, ownVars, unitVars>>

(* _run_actual_experiment: submission.csv opened, the header written *)
OpenSubmission ==
    /\ rpc = "predicted"
    /\ \E os_error \in BOOLEAN :
        IF os_error
        THEN /\ rpc' = "returned"
             /\ UNCHANGED <<submission, sample_index>>
        ELSE /\ submission' = <<HEADER_ROW>>
             /\ sample_index' = 1
             /\ rpc' = "writing"
    /\ UNCHANGED <<experiment_class, seed_calls, args,
                   experiment_parameters, parameters, self_parameters,
                   build_calls, parameters_seen, directories,
                   experiment_directory, logging_ready, keras_helper,
                   parameters_json, classifier, test_prediction_input,
                   test_prediction, predicted_segmentation, patch_y,
                   patch_x, trial, raised>>
    /\ UNCHANGED <<shapeVars, augVars, ownVars, unitVars>>

(* _run_actual_experiment: the next sample squeezed and its shape checked *)
CheckSample ==
    /\ rpc = "writing"
    /\ sample_index <= Len(test_prediction)
    /\ LET segmentation == squeeze(test_prediction[sample_index].shape)
           input_size == input_size_of(test_prediction_input,
                                       test_prediction[sample_index].id)
       IN  /\ predicted_segmentation' = segmentation
           /\ IF \/ Len(segmentation) # 2
                 \/ segmentation # expected_segmentation_size(input_size)
              THEN /\ raised' = "ValueError"
                   /\ rpc' = "raised"
                   /\ UNCHANGED <<patch_y, patch_x>>
              ELSE /\ patch_y' = 0
                   /\ patch_x' = 0
                   /\ rpc' = "rows"
                   /\ UNCHANGED raised
    /\ UNCHANGED <<experiment_class, seed_calls, args,
                   experiment_parameters, parameters, self_parameters,
                   build_calls, parameters_seen, directories,
                   experiment_directory, logging_ready, keras_helper,
                   parameters_json, classifier, test_prediction_input,
                   test_prediction, submission, sample_index, trial>>
    /\ UNCHANGED <<shapeVars, augVars, ownVars, unitVars>>

(* _run_actual_experiment: one turn of the inner loop, one row written *)
WriteRow ==
    /\ rpc = "rows"
    /\ submission' =
           Append(submission,
                  <<create_output_id(test_prediction[sample_index].id, patch_x, patch_y),
                    decimal(segmentation_value(patch_y, patch_x))>>)
    /\ IF patch_x + 1 < predicted_segmentation[2]
       THEN /\ patch_x' = patch_x + 1
            /\ UNCHANGED <<patch_y, sample_index, rpc>>
       ELSE IF patch_y + 1 < predicted_segmentation[1]
       THEN /\ patch_y' = patch_y + 1
            /\ patch_x' = 0
            /\ UNCHANGED <<sample_index, rpc>>
       ELSE /\ sample_index' = sample_index + 1
            /\ rpc' = "writing"
            /\ UNCHANGED <<patch_y, patch_x>>
    /\ UNCHANGED <<experiment_class, seed_calls, args,
                   experiment_parameters, parameters, self_parameters,
                   build_calls, parameters_seen, directories,
                   experiment_directory, logging_ready, keras_helper,
                   parameters_json, classifier, test_prediction_input,
                   test_prediction, predicted_segmentation, trial, raised>>
    /\ UNCHANGED <<shapeVars, augVars, ownVars, unitVars>>

(* _run_actual_experiment: the loop over test_prediction is over *)
FinishSubmission ==
    /\ rpc = "writing"
    /\ sample_index > Len(test_prediction)
    /\ rpc' = "finished"
    /\ UNCHANGED <<experiment_class, seed_calls, args,
                   experiment_parameters, parameters, self_parameters,
                   build_calls, parameters_seen, directories,
                   experiment_directory, logging_ready, keras_helper,
                   parameters_json, classifier, test_prediction_input,
                   test_prediction, submission, sample_index,
                   predicted_segmentation, patch_y, patch_x, trial, raised>>
    /\ UNCHANGED <<shapeVars, augVars, ownVars, unitVars>>

(* SearchExperiment._run_actual_experiment: data loaded, experiment built *)
SearchLoadData ==
    /\ rpc = "stored"
    /\ experiment_class = "SearchExperiment"
    /\ \E failed \in BOOLEAN :
        rpc' = IF failed THEN "returned" ELSE "searching"
    /\ UNCHANGED <<experiment_class, seed_calls, args,
                   experiment_parameters, parameters, self_parameters,
                   build_calls, parameters_seen, directories,
                   experiment_directory, logging_ready, keras_helper,
                   parameters_json, classifier, test_prediction_input,
                   test_prediction, submission, sample_index,
                   predicted_segmentation, patch_y, patch_x, trial, raised>>
    /\ UNCHANGED <<shapeVars, augVars, ownVars, unitVars>>

(* mutant: the trial writes its number into the experiment's parameters *)
SearchRunTrialUpdating ==
    /\ rpc = "searching"
    /\ trial < total_trials(self_parameters)
    /\ parameters_seen' = parameters_seen \cup {self_parameters}
    /\ trial' = trial + 1
    /\ self_parameters' = dict_set(self_parameters, "trial", trial + 1)
    /\ UNCHANGED <<experiment_class, rpc, seed_calls, args,
                   experiment_parameters, parameters, build_calls,
                   directories, experiment_directory, logging_ready, keras_helper, parameters_json,
                   classifier, test_prediction_input, test_prediction,
                   submission, sample_index, predicted_segmentation,
                   patch_y, patch_x, raised>>
    /\ UNCHANGED <<shapeVars, augVars, ownVars, unitVars>>

(* mutant: every trial fixes the seeds again *)
SearchRunTrialReseeding ==
    /\ rpc = "searching"
    /\ trial < total_trials(self_parameters)
    /\ parameters_seen' = parameters_seen \cup {self_parameters}
    /\ trial' = trial + 1
    /\ seed_calls' = seed_calls + 1
    /\ UNCHANGED <<experiment_class, rpc, args,
                   experiment_parameters, parameters, self_parameters,
                   build_calls, directories, experiment_directory,
                   logging_ready, keras_helper, parameters_json,
                   classifier, test_prediction_input, test_prediction,
                   submission, sample_index, predicted_segmentation,
                   patch_y, patch_x, raised>>
    /\ UNCHANGED <<shapeVars, augVars, ownVars, unitVars>>

(* SearchExperiment._run_trial, called by loop.full_run() *)
SearchRunTrial ==
    /\ rpc = "searching"
    /\ trial < total_trials(self_parameters)
    /\ parameters_seen' = parameters_seen \cup {self_parameters}
    /\ trial' = trial + 1
    /\ UNCHANGED <<experiment_class, rpc, seed_calls, args,
                   experiment_parameters, parameters, self_parameters,
                   build_calls, directories, experiment_directory,
                   logging_ready, keras_helper, parameters_json,
                   classifier, test_prediction_input, test_prediction,
                   submission, sample_index, predicted_segmentation,
                   patch_y, patch_x, raised>>
    /\ UNCHANGED <<shapeVars, augVars, ownVars, unitVars>>

(* SearchExperiment._run_actual_experiment: all trials done, results saved *)
SearchFinish ==
    /\ rpc = "searching"
    /\ trial = total_trials(self_parameters)
    /\ rpc' = "finished"
    /\ UNCHANGED <<experiment_class, seed_calls, args,
                   experiment_parameters, parameters, self_parameters,
                   build_calls, parameters_seen, directories,
                   experiment_directory, logging_ready, keras_helper,
                   parameters_json, classifier, test_prediction_input,
                   test_prediction, submission, sample_index,
                   predicted_segmentation, patch_y, patch_x, trial, raised>>
    /\ UNCHANGED <<shapeVars, augVars, ownVars, unitVars>>

NextHarness ==
    \/ RunFixSeeds
    \/ RunParseArgs
    \/ RunBuildParameterDict
    \/ RunMakeDirectory
    \/ RunSetupLogging
    \/ RunCreateHelpers
    \/ RunStoreParameters
    \/ FitModel
    \/ ReadTestInputs
    \/ Predict
    \/ OpenSubmission
    \/ CheckSample
    \/ WriteRow
    \/ FinishSubmission
    \/ SearchLoadData
    \/ SearchRunTrial
    \/ SearchFinish

SpecHarness == InitHarness /\ [][NextHarness]_vars

---------------------------------------------------------------------------
(* Properties of the padding, the models' shapes, the backbone and the JPU *)

PadCallers == Models \cup {"pad_to_stride"}
PadReturned == callee \in PadCallers /\ pc \notin {"start", "error"}
PadComputed == callee \in PadCallers /\ pc # "start"
JPUReturned ==
    \/ callee = "JPUModule" /\ pc = "done"
    \/ callee \in Models /\ pc \in {"jpu", "head", "upsampled", "done"}

(* C1: an input whose height and width are already multiples of the      *)
(* target stride is padded by zero pixels on every side, so the padded   *)
(* tensor has the input's height and width (stride 32 inside the models) *)
C1_PaddingIdempotence ==
    (PadReturned /\ inputs.h % target_stride = 0 /\ inputs.w % target_stride = 0)
        => /\ paddings = NoPaddings
           /\ padded_inputs.h = inputs.h
           /\ padded_inputs.w = inputs.w

(* C2: the padded height and width are multiples of the stride, and a    *)
(* dimension that is not a multiple of the stride gets exactly           *)
(* s - (d mod s) pixels, the least amount that reaches a multiple        *)
C2_LeastTotal(d, s, total) ==
    (d % s # 0) =>
        /\ total = s - (d % s)
        /\ \A t \in 0..(total - 1) : (d + t) % s # 0

C2_PaddedToMultiple ==
    /\ PadReturned =>
        /\ padded_inputs.h % target_stride = 0
        /\ padded_inputs.w % target_stride = 0
        /\ padded_inputs.h = inputs.h + paddings.top + paddings.bottom
        /\ padded_inputs.w = inputs.w + paddings.left + paddings.right
    /\ PadComputed =>
        /\ C2_LeastTotal(inputs.h, target_stride, paddings.top + paddings.bottom)
        /\ C2_LeastTotal(inputs.w, target_stride, paddings.left + paddings.right)

C2_Witness ==
    /\ callee = "pad_to_stride" /\ pc = "done"
    /\ inputs.h = 20 /\ inputs.w = 17 /\ target_stride = 3
    /\ padded_inputs.h = 21 /\ padded_inputs.w = 18

(* C3: the total padding t of a dimension is split into floor(t/2)       *)
(* before and ceil(t/2) after the content, the odd pixel going after;    *)
(* H = 33 with stride 32 gives 31 = 15 + 16                              *)
C3_Split(d, s, before, after) ==
    LET t == s - (d % s)
    IN  /\ before + after = t
        /\ 2 * before <= t /\ t < 2 * before + 2
        /\ after - before = t % 2

C3_OddPaddingAfter ==
    PadComputed =>
        /\ C3_Split(inputs.h, target_stride, paddings.top, paddings.bottom)
        /\ C3_Split(inputs.w, target_stride, paddings.left, paddings.right)
        /\ (inputs.h = 33 /\ target_stride = 32) =>
               (paddings.top = 15 /\ paddings.bottom = 16)

C3_Witness ==
    /\ callee = "pad_to_stride" /\ pc = "done"
    /\ inputs.h = 33 /\ target_stride = 32
    /\ paddings.top = 15 /\ paddings.bottom = 16
    /\ padded_inputs.h = 64

(* C4: TestFastFCN.call returns, for every input size H x W, a tensor of *)
(* spatial shape H x W; the upsampled logits are never smaller than the  *)
(* input, so the final step only trims and never zero-pads               *)
C4_RoundTripShape ==
    /\ (pc = "done") =>
        /\ outputs.h = inputs.h /\ outputs.w = inputs.w
        /\ outputs.n = inputs.n /\ outputs.c = 1
        /\ crop.pad_top = 0 /\ crop.pad_bottom = 0
        /\ crop.pad_left = 0 /\ crop.pad_right = 0
        /\ crop.crop_top + outputs.h <= padded_outputs.h
        /\ crop.crop_left + outputs.w <= padded_outputs.w
    /\ (pc \in {"upsampled", "done"}) =>
        /\ padded_outputs.h >= inputs.h /\ padded_outputs.w >= inputs.w
        /\ padded_outputs.h = padded_inputs.h /\ padded_outputs.w = padded_inputs.w

C4_Returns == pc # "error" /\ (pc # "done" => ENABLED Next)

C4_RoundTripEveryInput ==
    callee = "TestFastFCN" => (C4_Returns /\ C4_RoundTripShape)

(* C4 as it holds: the same for every input with H >= 12 and W >= 12,    *)
(* the sizes for which the reflection padding to a multiple of 32 exists *)
C4_RoundTrip ==
    (callee = "TestFastFCN" /\ inputs.h >= 12 /\ inputs.w >= 12)
        => (C4_Returns /\ C4_RoundTripShape)

C4_Witness ==
    /\ callee = "TestFastFCN" /\ pc = "done"
    /\ inputs.h = 33 /\ inputs.w = 20
    /\ padded_outputs.h = 64 /\ padded_outputs.w = 32
    /\ outputs.h = 33 /\ outputs.w = 20

(* C5: FastFCN.call and FastFCNNoContext.call return, for every input    *)
(* [N, H, W, 3], logits of shape [N, H // 8, W // 8, 1]; [1, 384, 384,   *)
(* 3] gives [1, 48, 48, 1]                                               *)
C5_LogitShape ==
    /\ (pc = "done") =>
           outputs = Shape(inputs.n, inputs.h \div 8, inputs.w \div 8, 1)
    /\ (pc \in {"head", "done"}) =>
        /\ small_outputs.h * 8 = padded_inputs.h
        /\ small_outputs.w * 8 = padded_inputs.w
    /\ (pc = "done" /\ inputs = Shape(1, 384, 384, 3)) =>
           outputs = Shape(1, 48, 48, 1)

C5_ModelShapeEveryInput ==
    callee \in {"FastFCN", "FastFCNNoContext"} => (C4_Returns /\ C5_LogitShape)

(* C5 as it holds: the same for every input with H >= 12 and W >= 12 *)
C5_ModelShape ==
    (callee \in {"FastFCN", "FastFCNNoContext"} /\ inputs.h >= 12 /\ inputs.w >= 12)
        => (C4_Returns /\ C5_LogitShape)

C5_Witness ==
    /\ callee = "FastFCN" /\ pc = "done"
    /\ inputs = Shape(1, 384, 384, 3)
    /\ outputs = Shape(1, 48, 48, 1)

(* C6: on a [N, 256, 256, 3] batch the ResNet backbone returns three     *)
(* feature maps, 32x32, 16x16 and 8x8 in that order, so that [-3:] is    *)
(* the (stride 8, stride 16, stride 32) triple the JPU unpacks           *)
C6_BackboneReturnsThree ==
    (callee = "ResNetBackbone" /\ pc = "done" /\ inputs.h = 256 /\ inputs.w = 256)
        => /\ Len(backbone_out) = 3
           /\ Len(LastN(backbone_out, 3)) = 3
           /\ \A i \in 1..3 :
                  /\ backbone_out[i].h = 256 \div (2 ^ (i + 2))
                  /\ backbone_out[i].w = 256 \div (2 ^ (i + 2))

(* C7: for every input size d >= 1 the backbone's feature map at stride  *)
(* S in {8, 16, 32} has spatial size ceil(d / S)                         *)
C7_StageSize(d, size, S) == size = CeilDiv(d, S)

C7_FeatureMapCeilEveryInput ==
    (callee = "ResNetBackbone" /\ pc = "done") =>
        \A k \in 2..4 :
            /\ C7_StageSize(inputs.h, layer_outputs[k].h, 2 ^ (k + 1))
            /\ C7_StageSize(inputs.w, layer_outputs[k].w, 2 ^ (k + 1))

(* C7 as it holds: the size is ceil(d / S) for every d whose remainder   *)
(* modulo 8 is neither 1 nor 2 (the max-pool rounds down); for the       *)
(* other d the stride-8 map is one short of ceil(d / 8)                  *)
C7_NotFloored(d) == d % 8 \notin {1, 2}

C7_FeatureMapCeil ==
    (callee = "ResNetBackbone" /\ pc = "done") =>
        /\ \A k \in 2..4 :
            /\ C7_NotFloored(inputs.h) =>
                   C7_StageSize(inputs.h, layer_outputs[k].h, 2 ^ (k + 1))
            /\ C7_NotFloored(inputs.w) =>
                   C7_StageSize(inputs.w, layer_outputs[k].w, 2 ^ (k + 1))
        /\ ~C7_NotFloored(inputs.h) => layer_outputs[2].h = CeilDiv(inputs.h, 8) - 1
        /\ ~C7_NotFloored(inputs.w) => layer_outputs[2].w = CeilDiv(inputs.w, 8) - 1

C7_Witness ==
    /\ callee = "ResNetBackbone" /\ pc = "done"
    /\ inputs.h = 256 /\ inputs.w = 19
    /\ layer_outputs[2].h = 32 /\ layer_outputs[3].h = 16 /\ layer_outputs[4].h = 8
    /\ layer_outputs[2].w = 3 /\ layer_outputs[3].w = 2 /\ layer_outputs[4].w = 1

(* C8: for feature maps of sizes h x w, h/2 x w/2 and h/4 x w/4 the JPU  *)
(* brings all three to h x w before concatenating, and its output is     *)
(* h x w with 4F channels                                                *)
C8_Pyramid(ins) ==
    /\ Len(ins) = 3
    /\ ins[1].h = 2 * ins[2].h /\ ins[1].w = 2 * ins[2].w
    /\ ins[1].h = 4 * ins[3].h /\ ins[1].w = 4 * ins[3].w
    /\ ins[2].n = ins[1].n /\ ins[3].n = ins[1].n

C8_JPUOutputShape ==
    /\ (callee = "JPUModule" /\ pc = "error") => ~C8_Pyramid(intermediate_features)
    /\ (callee \in Models /\ pc = "backbone") =>
           (C8_Pyramid(intermediate_features) /\ ENABLED JPUCall)
    /\ (JPUReturned /\ C8_Pyramid(intermediate_features)) =>
        /\ dilation_inputs.h = intermediate_features[1].h
        /\ dilation_inputs.w = intermediate_features[1].w
        /\ dilation_inputs.c = 3 * jpu_features
        /\ upsampled_features =
               Shape(intermediate_features[1].n, intermediate_features[1].h,
                     intermediate_features[1].w, 4 * jpu_features)

C8_Witness ==
    /\ callee = "JPUModule" /\ pc = "done"
    /\ intermediate_features[1].h = 32 /\ intermediate_features[2].h = 16
    /\ intermediate_features[3].h = 8
    /\ intermediate_features[1].w = 32
    /\ jpu_features = 512
    /\ outputs.h = 32 /\ outputs.w = 32 /\ outputs.c = 2048


---------------------------------------------------------------------------
(* Properties of the augmentation *)

AugRotated ==
    \/ apc \in {"rotated", "cropped", "split", "rounded", "done"}
    \/ apc = "error" /\ rotated_sample # <<>>

(* C9: every element of the mask _augment_sample returns is exactly 0 or *)
(* 1, whatever the mask's values in [0, 1] and whatever the draws        *)
C9_MaskBinary ==
    (apc = "done") =>
        /\ Height(output_mask) = CropSize /\ Width(output_mask) = CropSize
        /\ \A i \in 1..Height(output_mask) : \A j \in 1..Width(output_mask) :
               output_mask[i][j] \in {0, MaskDen}

C9_Witness ==
    /\ apc = "done"
    /\ do_blur /\ flip /\ num_rotations = 3 /\ scaling_factor = ScaleDen + 1
    /\ crop_offset # <<0, 0>>
    /\ \E i \in 1..CropSize : \E j \in 1..CropSize :
           /\ cropped_sample[i][j].mask \notin {0, MaskDen}
           /\ 2 * cropped_sample[i][j].mask = MaskDen
           /\ output_mask[i][j] = 0
    /\ \E i \in 1..CropSize : \E j \in 1..CropSize : output_mask[i][j] = MaskDen

(* C10: for each flip in {no, yes} and each k in {0, 1, 2, 3}, rotating  *)
(* the flipped-and-rotated sample by 4 - k quarter turns and then        *)
(* applying the same flip gives back the image and the mask, element for *)
(* element                                                               *)
C10_Inverse(sample, flipped, k) ==
    LET back == rot90(sample, 4 - k)
    IN  IF flipped THEN flip_left_right(back) ELSE back

C10_FlipRotateClosure ==
    AugRotated =>
        /\ num_rotations \in 0..3
        /\ C10_Inverse(rotated_sample, flip, num_rotations) = concatenated_sample
        /\ image_channels(C10_Inverse(rotated_sample, flip, num_rotations)) = scaled_image
        /\ mask_channel(C10_Inverse(rotated_sample, flip, num_rotations)) = scaled_mask

C10_Witness ==
    /\ apc = "rotated"
    /\ flip /\ num_rotations = 1
    /\ Height(concatenated_sample) # Width(concatenated_sample)
    /\ Height(rotated_sample) = Width(concatenated_sample)
    /\ rotated_sample # concatenated_sample
    /\ rotated_sample[1][1] = concatenated_sample[1][1]

(* C11: the rotation count is drawn only from {0, 1, 2, 3}, and on a     *)
(* square grid with distinct cells the 8 combinations of left-right flip *)
(* followed by k quarter turns are pairwise different and are exactly    *)
(* the 8 symmetries of the square, the up-down flip and both             *)
(* transpositions among them                                             *)
C11_Symmetry(grid, swap, mirror_rows, mirror_columns) ==
    LET n == Height(grid)
    IN  [i \in 1..n |-> [j \in 1..n |->
            LET a == IF mirror_rows THEN n + 1 - i ELSE i
                b == IF mirror_columns THEN n + 1 - j ELSE j
            IN  IF swap THEN grid[b][a] ELSE grid[a][b]]]

C11_Symmetries(grid) ==
    {C11_Symmetry(grid, swap, mr, mc) : swap \in BOOLEAN, mr \in BOOLEAN, mc \in BOOLEAN}

C11_FlipRotations(grid) ==
    {rot90(random_flip_left_right(grid, f), k) : f \in BOOLEAN, k \in 0..3}

C11_Square(grid) == Height(grid) >= 2 /\ Height(grid) = Width(grid)

C11_RotationGroup ==
    /\ AugRotated => num_rotations \in 0..3
    /\ (concatenated_sample # <<>> /\ C11_Square(concatenated_sample)) =>
        /\ Cardinality(C11_FlipRotations(concatenated_sample)) = 8
        /\ C11_FlipRotations(concatenated_sample) = C11_Symmetries(concatenated_sample)
        /\ flip_up_down(concatenated_sample) \in C11_FlipRotations(concatenated_sample)
        /\ transpose(concatenated_sample) \in C11_FlipRotations(concatenated_sample)
        /\ flip_up_down(flip_left_right(transpose(concatenated_sample)))
               \in C11_FlipRotations(concatenated_sample)
        /\ AugRotated => rotated_sample \in C11_Symmetries(concatenated_sample)

C11_Witness ==
    /\ apc = "rotated"
    /\ C11_Square(concatenated_sample) /\ Height(concatenated_sample) >= 3
    /\ flip /\ num_rotations = 1
    /\ rotated_sample = transpose(concatenated_sample)
    /\ rotated_sample # concatenated_sample

(* C12: the flip decision, the rotation count and the crop offset are    *)
(* drawn once and applied to the concatenated tensor, so the mask value  *)
(* returned at (i, j) is the rounded value of the scaled mask at the     *)
(* place of the scaled image the pixel returned at (i, j) was taken from *)
C12_SourceMask(pixel) == scaled_mask[pixel[1]][pixel[2]]

C12_CellsAligned(sample) ==
    \A i \in 1..Height(sample) : \A j \in 1..Width(sample) :
        sample[i][j].mask = C12_SourceMask(sample[i][j].img)

C12_Alignment ==
    /\ C12_CellsAligned(concatenated_sample)
    /\ C12_CellsAligned(flipped_sample)
    /\ C12_CellsAligned(rotated_sample)
    /\ C12_CellsAligned(cropped_sample)
    /\ (apc \in {"cropped", "split", "rounded", "done"}) =>
           cropped_sample =
               random_crop(rot90(random_flip_left_right(concatenated_sample, flip),
                                 num_rotations), crop_offset, CropSize)
    /\ (apc \in {"split", "rounded", "done"}) =>
        /\ Height(output_image) = CropSize /\ Width(output_image) = CropSize
        /\ Height(output_mask) = CropSize /\ Width(output_mask) = CropSize
        /\ \A i \in 1..CropSize : \A j \in 1..CropSize :
               /\ output_image[i][j] = cropped_sample[i][j].img
               /\ output_mask[i][j] =
                      IF apc = "split"
                      THEN C12_SourceMask(output_image[i][j])
                      ELSE MaskDen * RoundHalfEven(C12_SourceMask(output_image[i][j]), MaskDen)
    /\ (apc = "done") =>
           \A i \in 1..CropSize : \A j \in 1..CropSize :
               output_image_lab[i][j] = [lab |-> output_image[i][j]]

C12_Witness ==
    /\ apc = "done"
    /\ flip /\ num_rotations = 3 /\ crop_offset = <<1, 1>>
    /\ output_image[1][1] # <<1, 1>>
    /\ \E i \in 1..CropSize : \E j \in 1..CropSize :
           /\ C12_SourceMask(output_image[i][j]) \notin {0, MaskDen}
           /\ output_mask[i][j] # output_mask[i][CropSize + 1 - j]

(* C13: in every execution of _augment_sample the steps occur in the     *)
(* order blur, joint scaling, concatenation, flip, rotation, random      *)
(* crop, split, mask rounding, colour-space conversion; each step writes *)
(* only its own results, the conversion is the last thing done to the    *)
(* image, and nothing is applied once the image is converted             *)
C13_Positions ==
    <<"start", "blurred", "scaled", "concatenated", "flipped", "rotated",
      "cropped", "split", "rounded", "done">>

C13_StepWrites(n) ==
    CASE n = 1 -> UNCHANGED <<scaling_factor, scaled_size, scaled_image, scaled_mask,
                              concatenated_sample, flip, flipped_sample,
                              num_rotations, rotated_sample, crop_offset,
                              cropped_sample, output_image, output_mask,
                              output_image_lab>>
      [] n = 2 -> UNCHANGED <<do_blur, blurred_image, concatenated_sample, flip,
                              flipped_sample, num_rotations, rotated_sample,
                              crop_offset, cropped_sample, output_image,
                              output_mask, output_image_lab>>
      [] n = 3 -> UNCHANGED <<do_blur, blurred_image, scaling_factor, scaled_size,
                              scaled_image, scaled_mask, flip, flipped_sample,
                              num_rotations, rotated_sample, crop_offset,
                              cropped_sample, output_image, output_mask,
                              output_image_lab>>
      [] n = 4 -> UNCHANGED <<do_blur, blurred_image, scaling_factor, scaled_size,
                              scaled_image, scaled_mask, concatenated_sample,
                              num_rotations, rotated_sample, crop_offset,
                              cropped_sample, output_image, output_mask,
                              output_image_lab>>
      [] n = 5 -> UNCHANGED <<do_blur, blurred_image, scaling_factor, scaled_size,
                              scaled_image, scaled_mask, concatenated_sample,
                              flip, flipped_sample, crop_offset, cropped_sample,
                              output_image, output_mask, output_image_lab>>
      [] n = 6 -> UNCHANGED <<do_blur, blurred_image, scaling_factor, scaled_size,
                              scaled_image, scaled_mask, concatenated_sample,
                              flip, flipped_sample, num_rotations, rotated_sample,
                              output_image, output_mask, output_image_lab>>
      [] n = 7 -> UNCHANGED <<do_blur, blurred_image, scaling_factor, scaled_size,
                              scaled_image, scaled_mask, concatenated_sample,
                              flip, flipped_sample, num_rotations, rotated_sample,
                              crop_offset, cropped_sample, output_image_lab>>
      [] n = 8 -> UNCHANGED <<do_blur, blurred_image, scaling_factor, scaled_size,
                              scaled_image, scaled_mask, concatenated_sample,
                              flip, flipped_sample, num_rotations, rotated_sample,
                              crop_offset, cropped_sample, output_image,
                              output_image_lab>>
      [] n = 9 -> /\ output_image_lab' = py_function_convert_colorspace(output_image)
                  /\ UNCHANGED <<do_blur, blurred_image, scaling_factor,
                                 scaled_size, scaled_image, scaled_mask,
                                 concatenated_sample, flip, flipped_sample,
                                 num_rotations, rotated_sample, crop_offset,
                                 cropped_sample, output_image, output_mask>>

C13_Step ==
    /\ UNCHANGED <<image, mask>>
    /\ output_image_lab = <<>>
    /\ \E n \in 1..9 :
        /\ apc = C13_Positions[n]
        /\ apc' \in {C13_Positions[n + 1], "error"}
        /\ C13_StepWrites(n)

C13_StepOrder == [][C13_Step]_vars

C13_Witness ==
    /\ apc = "done"
    /\ do_blur /\ blurred_image = image
    /\ scaled_image # <<>> /\ concatenated_sample # <<>>
    /\ rotated_sample # <<>> /\ cropped_sample # <<>>
    /\ output_image = image_channels(cropped_sample)
    /\ output_image_lab = py_function_convert_colorspace(output_image)
    /\ output_mask = round_mask(mask_channel(cropped_sample))
    /\ output_mask # mask_channel(cropped_sample)

---------------------------------------------------------------------------
(* Properties of the experiment harness *)

(* C14: for every test image of size H x W (multiples of PATCH_SIZE) the *)
(* segmentation BaselineFCNExperiment.predict returns has, after         *)
(* squeezing, shape (H / PATCH_SIZE) x (W / PATCH_SIZE), so the shape    *)
(* check of _run_actual_experiment never raises ValueError for it        *)
C14_SubmissionShape ==
    (experiment_class = "BaselineFCNExperiment") =>
        /\ raised # "ValueError"
        /\ \A n \in 1..Len(test_prediction) :
               squeeze(test_prediction[n].shape) =
                   <<test_prediction_input[n].size[1] \div PATCH_SIZE,
                     test_prediction_input[n].size[2] \div PATCH_SIZE>>

(* C15: the header row Id,Prediction is written once and before any     *)
(* data row; for every predicted sample of valid shape h x w exactly one *)
(* row is written per patch, in row-major order, whose Id is the sample  *)
(* id zero-padded to at least 3 digits, then _x_y with x = patch_x *     *)
(* PATCH_SIZE and y = patch_y * PATCH_SIZE; all Ids are pairwise         *)
(* distinct                                                              *)
C15_IsDigits(text) ==
    /\ Len(text) >= 1
    /\ \A i \in 1..Len(text) :
           \E d \in 0..9 : SubSeq(text, i, i) = SubSeq("0123456789", d + 1, d + 1)

RECURSIVE C15_Number(_)
C15_Number(text) ==
    IF Len(text) = 0 THEN 0
    ELSE 10 * C15_Number(SubSeq(text, 1, Len(text) - 1))
         + (CHOOSE d \in 0..9 :
                SubSeq(text, Len(text), Len(text)) = SubSeq("0123456789", d + 1, d + 1))

C15_Separators(text) == {i \in 1..Len(text) : SubSeq(text, i, i) = "_"}

(* the Id reads <id, at least 3 digits>_<x>_<y> *)
C15_IdReads(text, id, x, y) ==
    /\ Cardinality(C15_Separators(text)) = 2
    /\ LET first == CHOOSE i \in C15_Separators(text) :
                        \A j \in C15_Separators(text) : i <= j
           second == CHOOSE i \in C15_Separators(text) :
                         \A j \in C15_Separators(text) : i >= j
           id_text == SubSeq(text, 1, first - 1)
           x_text == SubSeq(text, first + 1, second - 1)
           y_text == SubSeq(text, second + 1, Len(text))
       IN  /\ C15_IsDigits(id_text) /\ C15_IsDigits(x_text) /\ C15_IsDigits(y_text)
           /\ C15_Number(id_text) = id
           /\ Len(id_text) >= 3
           /\ Len(id_text) > 3 => SubSeq(id_text, 1, 1) # "0"
           /\ C15_Number(x_text) = x
           /\ C15_Number(y_text) = y
           /\ Len(x_text) > 1 => SubSeq(x_text, 1, 1) # "0"
           /\ Len(y_text) > 1 => SubSeq(y_text, 1, 1) # "0"

(* rows written for the samples before sample_index, and for the current *)
(* one while its rows are being written                                  *)
C15_RowsDue(h, w) ==
    IF rpc = "rows"
    THEN (sample_index - 1) * h * w + patch_y * w + patch_x
    ELSE IF rpc = "raised" THEN (sample_index - 1) * h * w
    ELSE IF rpc \in {"writing", "finished"} THEN (sample_index - 1) * h * w
    ELSE 0

C15_SubmissionRows ==
    (submission # <<>>) =>
        LET size == IF test_prediction_input = <<>> THEN <<0, 0>>
                    ELSE test_prediction_input[1].size
            h == size[1] \div PATCH_SIZE
            w == size[2] \div PATCH_SIZE
        IN  /\ submission[1] = <<"Id", "Prediction">>
            /\ \A k \in 2..Len(submission) : submission[k][1] # "Id"
            /\ Len(submission) = 1 + C15_RowsDue(h, w)
            /\ (rpc = "finished") => Len(submission) = 1 + Len(test_prediction) * h * w
            /\ \A k \in 2..Len(submission) :
                   LET n == ((k - 2) \div (h * w)) + 1
                       y == ((k - 2) % (h * w)) \div w
                       x == ((k - 2) % (h * w)) % w
                   IN  /\ squeeze(test_prediction[n].shape) = <<h, w>>
                       /\ C15_IdReads(submission[k][1], test_prediction[n].id,
                                      x * PATCH_SIZE, y * PATCH_SIZE)
                       /\ submission[k][2] \in {"0", "1"}
            /\ \A k \in 2..Len(submission) : \A m \in 2..Len(submission) :
                   (k # m) => submission[k][1] # submission[m][1]

C15_Witness ==
    /\ rpc = "finished"
    /\ experiment_class = "FitExperiment"
    /\ Len(test_prediction) = 2
    /\ test_prediction_input[1].size = <<2 * PATCH_SIZE, 3 * PATCH_SIZE>>
    /\ test_prediction[1].shape = <<2, 3>>
    /\ test_prediction[2].shape = <<1, 2, 3, 1>>
    /\ Len(submission) = 13
    /\ submission[2][1] = "007_0_0"
    /\ submission[4][1] = "007_32_0"
    /\ submission[5][1] = "007_0_16"
    /\ submission[8][1] = "042_0_0"
    /\ submission[13][1] = "042_32_16"

(* C16: the parameters are built exactly once per run, before the       *)
(* output directory is created, and never change afterwards: no later    *)
(* step reassigns the mapping or adds, removes or changes a key, so what *)
(* is written to parameters.json is what every later step reads          *)
C16_BuiltOnce ==
    /\ build_calls <= 1
    /\ (self_parameters # NoParameters) => build_calls = 1
    /\ (rpc \notin {"start", "seeded", "parsed", "raised"}) =>
           (self_parameters # NoParameters /\ self_parameters = parameters)
    /\ (experiment_directory # "") => self_parameters # NoParameters
    /\ parameters_seen \subseteq {self_parameters}
    /\ (parameters_json # NoParameters) =>
        /\ DOMAIN parameters_json = DOMAIN self_parameters
        /\ \A key \in DOMAIN self_parameters : parameters_json[key] = self_parameters[key]

C16_NoLaterWrite ==
    /\ (self_parameters # NoParameters) =>
           (self_parameters' = self_parameters /\ parameters' = parameters)
    /\ (parameters_json # NoParameters) => parameters_json' = parameters_json
    /\ (self_parameters' # self_parameters) => (rpc = "parsed" /\ directories' = directories)

C16_ParametersImmutable == [](C16_BuiltOnce) /\ [][C16_NoLaterWrite]_vars

C16_Witness ==
    /\ rpc = "finished"
    /\ experiment_class = "SearchExperiment"
    /\ trial = 2
    /\ build_calls = 1
    /\ parameters_seen = {self_parameters}
    /\ parameters_json = self_parameters
    /\ DOMAIN self_parameters =
           {"epochs", "base_data_directory", "base_log_directory", "base_is_debug",
            "base_search_initial_trials", "base_search_optimised_trials",
            "base_search_folds"}

(* C17: whenever the mapping returned by build_parameter_dict has a key  *)
(* starting with `base_`, _build_parameter_dict raises ValueError before *)
(* adding any general parameter and before any directory or file is      *)
(* created; otherwise the result is the experiment's mapping extended    *)
(* with exactly base_data_directory, base_log_directory and              *)
(* base_is_debug (and the three base_search_* keys for a search)         *)
C17_Reserved(key) == Len(key) >= 5 /\ SubSeq(key, 1, 5) = "base_"

C17_GeneralKeys == {"base_data_directory", "base_log_directory", "base_is_debug"}

C17_SearchKeys ==
    {"base_search_initial_trials", "base_search_optimised_trials", "base_search_folds"}

C17_AddedKeys ==
    IF experiment_class = "SearchExperiment"
    THEN C17_GeneralKeys \cup C17_SearchKeys ELSE C17_GeneralKeys

C17_ReservedPrefix ==
    (build_calls = 1) =>
        IF \E key \in DOMAIN experiment_parameters : C17_Reserved(key)
        THEN /\ rpc = "raised" /\ raised = "ValueError"
             /\ parameters = experiment_parameters
             /\ self_parameters = NoParameters
             /\ experiment_directory = ""
             /\ ~logging_ready
             /\ parameters_json = NoParameters
             /\ submission = <<>>
        ELSE /\ rpc # "raised" \/ raised # "ValueError" \/ submission # <<>>
             /\ DOMAIN self_parameters = DOMAIN experiment_parameters \cup C17_AddedKeys
             /\ DOMAIN experiment_parameters \cap C17_AddedKeys = {}
             /\ \A key \in DOMAIN experiment_parameters :
                    self_parameters[key] = experiment_parameters[key]
             /\ self_parameters["base_data_directory"] = args.datadir
             /\ self_parameters["base_log_directory"] = args.logdir
             /\ self_parameters["base_is_debug"] = args.debug
             /\ (experiment_class = "SearchExperiment") =>
                 /\ self_parameters["base_search_initial_trials"] = args.initial_trials
                 /\ self_parameters["base_search_optimised_trials"] = args.optimised_trials
                 /\ self_parameters["base_search_folds"] = args.folds

C17_RaisesBeforeAnyOutput ==
    (rpc = "parsed" /\ rpc' = "raised") =>
        /\ directories' = directories
        /\ has_reserved_key(parameters')
        /\ parameters' = experiment_parameters'

C17_ReservedKeyPrefix == [](C17_ReservedPrefix) /\ [][C17_RaisesBeforeAnyOutput]_vars

C17_Witness ==
    /\ rpc = "raised" /\ raised = "ValueError"
    /\ experiment_parameters = [base_is_debug |-> 1]
    /\ parameters = [base_is_debug |-> 1]
    /\ self_parameters = NoParameters
    /\ directories = {}
    /\ experiment_directory = ""

---------------------------------------------------------------------------
(* Error handling of the augmentation *)

(* C18: whenever the image and the mask passed to _augment_sample differ *)
(* in height or width, the augmentation fails with an error and returns  *)
(* no (image, mask) sample                                               *)
C18_ShapeMismatchFatal ==
    (callee = "_augment_sample" /\ (Height(mask) # image.h \/ Width(mask) # image.w))
        => /\ apc # "done"
           /\ output_image_lab = <<>>

(* C19: the scale factor is never checked, clamped or drawn again        *)
(* against training_image_size; whenever the scaled sample is, after the *)
(* rotation, smaller than the crop in height or width, control still     *)
(* reaches the random crop with the undersized tensor, and no sample     *)
(* smaller than training_image_size is ever returned                     *)
C19_Undersized(sample) == Height(sample) < CropSize \/ Width(sample) < CropSize

C19_Unguarded ==
    /\ (scaled_image # <<>>) =>
        /\ scaling_factor \in ScalingFactors
        /\ scaled_size[1] = RoundHalfEven(blurred_image.h * scaling_factor, ScaleDen)
        /\ scaled_size[2] = RoundHalfEven(blurred_image.w * scaling_factor, ScaleDen)
        /\ Height(scaled_image) = scaled_size[1] /\ Width(scaled_image) = scaled_size[2]
        /\ (apc = "error") => (rotated_sample # <<>> /\ C19_Undersized(rotated_sample))
    /\ (apc = "rotated") => ENABLED AugCrop
    /\ (AugRotated /\ C19_Undersized(rotated_sample)) =>
        /\ apc \in {"rotated", "error"}
        /\ cropped_sample = <<>> /\ output_image = <<>> /\ output_mask = <<>>
        /\ output_image_lab = <<>>
    /\ (apc = "done") =>
        /\ Height(output_image_lab) = CropSize /\ Width(output_image_lab) = CropSize
        /\ Height(output_mask) = CropSize /\ Width(output_mask) = CropSize

C19_DrawnOnce ==
    (scaled_image # <<>>) => UNCHANGED <<scaling_factor, scaled_size, scaled_image>>

C19_DegenerateCropUnguarded == [](C19_Unguarded) /\ [][C19_DrawnOnce]_vars

C19_Witness ==
    /\ apc = "error"
    /\ scaling_factor = ScaleDen - 1
    /\ image.h = CropSize /\ image.w = CropSize + 1
    /\ Height(scaled_image) < CropSize /\ Width(scaled_image) = CropSize
    /\ num_rotations = 1
    /\ Width(rotated_sample) < CropSize
    /\ cropped_sample = <<>>



(***************************************************************************)
(* Construction of the full models.  Every constructed object (backbone,   *)
(* JPU module, head) is identified by the value of next_object at its      *)
(* construction.  FastFCN and FastFCNNoContext store the backbone their    *)
(* caller hands in and construct their JPU module and head; TestFastFCN    *)
(* constructs all three.                                                   *)
(***************************************************************************)

MaxModels == 3

MaxBackbones == 2

(* a TestFastFCN keeping one module-level backbone for all its instances *)
TestFastFCN_init_shared(next) ==
    [class |-> "TestFastFCN", backbone |-> 0,
     upsampling |-> next + 1, head |-> next + 2]

(* FastFCN.__init__: self.backbone = backbone, then a new JPUModule and a
   new EncoderHead *)
FastFCN_init(backbone, next) ==
    [class |-> "FastFCN", backbone |-> backbone,
     upsampling |-> next, head |-> next + 1]

(* FastFCNNoContext.__init__: self.backbone = backbone, then a new JPUModule
   and a new FCNHeadNoContext *)
FastFCNNoContext_init(backbone, next) ==
    [class |-> "FastFCNNoContext", backbone |-> backbone,
     upsampling |-> next, head |-> next + 1]

(* TestFastFCN.__init__: a new ResNet50Backbone, a new JPUModule and a new
   FCNHead *)
TestFastFCN_init(next) ==
    [class |-> "TestFastFCN", backbone |-> next,
     upsampling |-> next + 1, head |-> next + 2]

InitOwnership ==
    /\ InitShapeIdle
    /\ InitAugIdle
    /\ InitHarnessIdle
    /\ InitOwnIdle
    /\ InitUnitIdle
    /\ callee = "__init__"
    /\ inputs = NoShape
    /\ target_stride = 0
    /\ jpu_features = 0
    /\ intermediate_features = <<>>

(* the caller constructs a backbone: ResNet50Backbone() or ResNet101Backbone() *)
ConstructBackbone ==
    /\ Cardinality(caller_backbones) < MaxBackbones
    /\ caller_backbones' = caller_backbones \cup {next_object}
    /\ next_object' = next_object + 1
    /\ UNCHANGED model_instances
    /\ UNCHANGED <<shapeVars, augVars, harnessVars, unitVars>>

ConstructFastFCN ==
    /\ Len(model_instances) < MaxModels
    /\ \E backbone \in caller_backbones :
           model_instances' =
               Append(model_instances, FastFCN_init(backbone, next_object))
    /\ next_object' = next_object + 2
    /\ UNCHANGED caller_backbones
    /\ UNCHANGED <<shapeVars, augVars, harnessVars, unitVars>>

ConstructFastFCNNoContext ==
    /\ Len(model_instances) < MaxModels
    /\ \E backbone \in caller_backbones :
           model_instances' =
               Append(model_instances,
                      FastFCNNoContext_init(backbone, next_object))
    /\ next_object' = next_object + 2
    /\ UNCHANGED caller_backbones
    /\ UNCHANGED <<shapeVars, augVars, harnessVars, unitVars>>

ConstructTestFastFCN ==
    /\ Len(model_instances) < MaxModels
    /\ model_instances' = Append(model_instances, TestFastFCN_init(next_object))
    /\ next_object' = next_object + 3
    /\ UNCHANGED caller_backbones
    /\ UNCHANGED <<shapeVars, augVars, harnessVars, unitVars>>

NextOwnership ==
    \/ ConstructBackbone
    \/ ConstructFastFCN
    \/ ConstructFastFCNNoContext
    \/ ConstructTestFastFCN

SpecOwnership == InitOwnership /\ [][NextOwnership]_vars

(***************************************************************************)
(* Properties of the construction of the models                            *)
(***************************************************************************)

C20_Pairs ==
    {pair \in (DOMAIN model_instances) \X (DOMAIN model_instances) :
        pair[1] # pair[2]}

C20_Injected == {"FastFCN", "FastFCNNoContext"}

C20_Parts(m) == {m.backbone, m.upsampling, m.head}

(* C20 as stated: after any sequence of constructions no backbone, JPU
   module or head is referenced by two different full models. *)
C20_ExclusiveOwnership ==
    \A pair \in C20_Pairs :
        C20_Parts(model_instances[pair[1]])
            \cap C20_Parts(model_instances[pair[2]]) = {}

(* C20, amended: no JPU module and no head is referenced by two different
   full models, no object serves two models in different roles, and the
   backbone of a TestFastFCN is referenced by no other model; a backbone is
   referenced by two models only when both are FastFCN or FastFCNNoContext
   instances whose caller handed the same backbone to both constructors. *)
C20_OwnedParts ==
    \A pair \in C20_Pairs :
        LET a == model_instances[pair[1]]
            b == model_instances[pair[2]]
        IN  /\ {a.upsampling, a.head} \cap C20_Parts(b) = {}
            /\ a.backbone \notin {b.upsampling, b.head}
            /\ a.backbone = b.backbone =>
                   /\ a.class \in C20_Injected
                   /\ b.class \in C20_Injected
                   /\ a.backbone \in caller_backbones

(* two models constructed on the same backbone, each with its own JPU module
   and head, next to a TestFastFCN *)
C20_Witness ==
    /\ \E pair \in C20_Pairs :
           /\ model_instances[pair[1]].backbone
                  = model_instances[pair[2]].backbone
           /\ model_instances[pair[1]].upsampling
                  # model_instances[pair[2]].upsampling
           /\ model_instances[pair[1]].head # model_instances[pair[2]].head
    /\ \E i \in DOMAIN model_instances :
           model_instances[i].class = "TestFastFCN"


(***************************************************************************)
(* Configuration of the layers.  The constructors of fastfcn.py hand their *)
(* arguments to the Keras layers without comparing them with anything, so  *)
(* a rejection can only come from Keras: keras_validates tells whether the *)
(* installed version checks the arguments in the layer constructors or     *)
(* leaves them to the first use of the layer.  Dropout rates are counted   *)
(* in tenths.                                                              *)
(***************************************************************************)

MaxLayers == 1

ConfiguredFeatures == {-1, 0, 256}

ConfiguredDropoutRates == {-1, 0, 1}

valid_features(count) == count > 0

valid_dropout_rate(rate) == rate >= 0 /\ rate <= 10

(* tf.keras.layers.Conv2D(filters=...) and SeparableConv2D(filters, ...) *)
Conv2D_init(filters) ==
    IF keras_validates /\ ~valid_features(filters) THEN "ValueError" ELSE "ok"

(* tf.keras.layers.SpatialDropout2D(dropout_rate) *)
SpatialDropout2D_init(rate) ==
    IF keras_validates /\ ~valid_dropout_rate(rate) THEN "ValueError" ELSE "ok"

(* the statements of a constructor in order: the first exception leaves it *)
RECURSIVE first_error(_)
first_error(results) ==
    IF results = <<>> THEN "ok"
    ELSE IF Head(results) # "ok" THEN Head(results)
    ELSE first_error(Tail(results))

JPUInputBlock_init(features_) == Conv2D_init(features_)

JPUSeparableBlock_init(features_) == Conv2D_init(features_)

(* JPUModule.__init__: three input blocks, two upsamplings, one separable
   block per dilation rate *)
JPUModule_init(features_) ==
    first_error(<<JPUInputBlock_init(features_), JPUInputBlock_init(features_),
                  JPUInputBlock_init(features_)>>
                \o [k \in 1..Len(DILATION_RATES) |->
                        JPUSeparableBlock_init(features_)])

(* EncoderHead.__init__: conv_in, (encoder), dropout, conv_out *)
EncoderHead_init(intermediate, dropout_rate) ==
    first_error(<<Conv2D_init(intermediate), SpatialDropout2D_init(dropout_rate),
                  Conv2D_init(1)>>)

(* FCNHeadNoContext.__init__: conv_in, dropout, conv_out *)
FCNHeadNoContext_init(intermediate, dropout_rate) ==
    first_error(<<Conv2D_init(intermediate), SpatialDropout2D_init(dropout_rate),
                  Conv2D_init(1)>>)

(* FCNHead.__init__: conv_in, conv_middle, dropout, conv_out *)
FCNHead_init(intermediate, dropout_rate) ==
    first_error(<<Conv2D_init(intermediate), Conv2D_init(intermediate),
                  SpatialDropout2D_init(dropout_rate), Conv2D_init(1)>>)

(* FastFCN.__init__ with its configuration: JPUModule(features=jpu_features),
   EncoderHead(intermediate_features=512, dropout_rate=head_dropout_rate) *)
FastFCN_init_result(jpu, head_dropout_rate) ==
    first_error(<<JPUModule_init(jpu),
                  EncoderHead_init(HEAD_FEATURES, head_dropout_rate)>>)

(* FastFCNNoContext.__init__ with its configuration *)
FastFCNNoContext_init_result(jpu, head_dropout_rate) ==
    first_error(<<JPUModule_init(jpu),
                  FCNHeadNoContext_init(HEAD_FEATURES,
                                        head_dropout_rate)>>)

Layer(kind, features_, dropout_rate) ==
    [kind |-> kind, features |-> features_, dropout_rate |-> dropout_rate,
     forward |-> "none"]

valid_configuration(layer) ==
    /\ valid_features(layer.features)
    /\ valid_dropout_rate(layer.dropout_rate)

(* a forward pass on a layer: a validly configured layer returns; what an
   invalidly configured one does is up to the installed library *)
call_outcomes(layer) ==
    IF valid_configuration(layer) THEN {"returned"}
    ELSE {"returned", "ValueError"}

InitConfiguration ==
    /\ InitShapeIdle
    /\ InitAugIdle
    /\ InitHarnessIdle
    /\ InitOwnIdle
    /\ InitColourIdle
    /\ InitBlockIdle
    /\ InitBlurIdle
    /\ InitDefaultIdle
    /\ InitRunsIdle
    /\ callee = "__init__"
    /\ inputs = NoShape
    /\ target_stride = 0
    /\ jpu_features = 0
    /\ intermediate_features = <<>>
    /\ keras_validates \in BOOLEAN
    /\ layers = <<>>
    /\ construction_result = "none"

(* a constructor call returns the object or is left by the exception *)
Constructed(layer, result) ==
    /\ Len(layers) < MaxLayers
    /\ construction_result' = result
    /\ layers' = IF result = "ok" THEN Append(layers, layer) ELSE layers
    /\ UNCHANGED keras_validates
    /\ UNCHANGED exceptConfigVars
    /\ UNCHANGED <<shapeVars, augVars, harnessVars, ownVars>>

ConstructJPUModule ==
    \E f \in ConfiguredFeatures :
        Constructed(Layer("JPUModule", f, 0), JPUModule_init(f))

ConstructEncoderHead ==
    \E f \in ConfiguredFeatures, rate \in ConfiguredDropoutRates :
        Constructed(Layer("EncoderHead", f, rate), EncoderHead_init(f, rate))

ConstructFCNHeadNoContext ==
    \E f \in ConfiguredFeatures, rate \in ConfiguredDropoutRates :
        Constructed(Layer("FCNHeadNoContext", f, rate),
                    FCNHeadNoContext_init(f, rate))

ConstructFCNHead ==
    \E f \in ConfiguredFeatures, rate \in ConfiguredDropoutRates :
        Constructed(Layer("FCNHead", f, rate), FCNHead_init(f, rate))

ConstructConfiguredFastFCN ==
    \E f \in ConfiguredFeatures, rate \in ConfiguredDropoutRates :
        Constructed(Layer("FastFCN", f, rate), FastFCN_init_result(f, rate))

ConstructConfiguredFastFCNNoContext ==
    \E f \in ConfiguredFeatures, rate \in ConfiguredDropoutRates :
        Constructed(Layer("FastFCNNoContext", f, rate),
                    FastFCNNoContext_init_result(f, rate))

(* the first forward pass on a constructed object *)
InvokeCall ==
    /\ \E i \in DOMAIN layers :
           /\ layers[i].forward = "none"
           /\ \E outcome \in call_outcomes(layers[i]) :
                  layers' = [layers EXCEPT ![i].forward = outcome]
    /\ UNCHANGED <<keras_validates, construction_result>>
    /\ UNCHANGED exceptConfigVars
    /\ UNCHANGED <<shapeVars, augVars, harnessVars, ownVars>>

NextConfiguration ==
    \/ ConstructJPUModule
    \/ ConstructEncoderHead
    \/ ConstructFCNHeadNoContext
    \/ ConstructFCNHead
    \/ ConstructConfiguredFastFCN
    \/ ConstructConfiguredFastFCNNoContext
    \/ InvokeCall

SpecConfiguration == InitConfiguration /\ [][NextConfiguration]_vars

(***************************************************************************)
(* Properties of the configuration of the layers                           *)
(***************************************************************************)

(* C21: constructing a full model, a JPU module or a head with a negative
   dropout rate or a non-positive feature count fails during construction:
   no such object exists for a forward pass to be invoked on. *)
C21_InvalidConfigurationFatal ==
    \A i \in DOMAIN layers : valid_configuration(layers[i])


(***************************************************************************)
(* Order of the steps of BaseExperiment.run                                *)
(***************************************************************************)

C22_NothingDone ==
    /\ rpc = "start"
    /\ args = <<>>
    /\ build_calls = 0
    /\ self_parameters = NoParameters
    /\ experiment_directory = ""
    /\ ~logging_ready
    /\ parameters_json = NoParameters
    /\ submission = <<>>
    /\ sample_index = 0
    /\ trial = 0

C22_SeededFirst ==
    /\ seed_calls \in {0, 1}
    /\ (seed_calls = 0) <=> C22_NothingDone

C22_SeedsOnlyAtStart ==
    (seed_calls' # seed_calls) =>
        /\ C22_NothingDone
        /\ seed_calls' = 1
        /\ rpc' = "seeded"
        /\ args' = args /\ build_calls' = build_calls
        /\ directories' = directories

(* C22: in every execution of run the seeds are fixed as the first action,
   before argument parsing, parameter building, directory creation and any
   experiment logic, and exactly once: no later step (sample, fold, trial)
   fixes them again. *)
C22_SeedingOrder == [](C22_SeededFirst) /\ [][C22_SeedsOnlyAtStart]_vars

(* a search run that went through all its trials *)
C22_Witness ==
    /\ experiment_class = "SearchExperiment"
    /\ rpc = "finished"
    /\ trial = 2
    /\ seed_calls = 1


(***************************************************************************)
(* convert_colorspace on one pixel.  Real numbers are fixed-point numbers  *)
(* in units of 1/FX, every operation rounding down.  rgb2lab is            *)
(* skimage.color.rgb2lab with its defaults (sRGB, illuminant D65, 2 degree *)
(* observer): rgb2xyz followed by xyz2lab.                                 *)
(***************************************************************************)

ColourLevels == 4

FX == 1276

fx_mul(a, b) == (a * b) \div FX

fx_pow5(r) ==
    LET r2 == fx_mul(r, r)
        r4 == fx_mul(r2, r2)
    IN  fx_mul(r4, r)

fx_pow12(r) ==
    LET r2 == fx_mul(r, r)
        r4 == fx_mul(r2, r2)
        r8 == fx_mul(r4, r4)
    IN  fx_mul(r8, r4)

(* the largest r in [0, 1] with r^5 <= v *)
fx_root5(v) ==
    CHOOSE r \in 0..FX :
        /\ fx_pow5(r) <= v
        /\ r = FX \/ fx_pow5(r + 1) > v

(* np.cbrt: the largest r in [0, 1] with r^3 <= t *)
fx_cbrt(t) ==
    CHOOSE r \in 0..FX :
        /\ r * r * r <= t * FX * FX
        /\ (r + 1) * (r + 1) * (r + 1) > t * FX * FX

(* rgb2xyz: arr[mask] = power((arr[mask] + 0.055) / 1.055, 2.4) where
   arr > 0.04045, arr[~mask] /= 12.92 elsewhere *)
srgb_to_linear(c) ==
    IF c * 100000 > 4045 * FX
    THEN fx_pow12(fx_root5((c * 1000 + 55 * FX) \div 1055))
    ELSE (c * 100) \div 1292

(* rgb2xyz: arr @ xyz_from_rgb.T *)
rgb2xyz(rgb) ==
    LET r == srgb_to_linear(rgb[1])
        g == srgb_to_linear(rgb[2])
        b == srgb_to_linear(rgb[3])
    IN  << (412453 * r + 357580 * g + 180423 * b) \div 1000000,
           (212671 * r + 715160 * g + 72169 * b) \div 1000000,
           (19334 * r + 119193 * g + 950227 * b) \div 1000000 >>

(* xyz2lab: arr[mask] = np.cbrt(arr[mask]) where arr > 0.008856,
   arr[~mask] = 7.787 * arr[~mask] + 16. / 116. elsewhere *)
lab_f(t) ==
    IF t * 1000000 > 8856 * FX
    THEN fx_cbrt(t)
    ELSE (7787 * t) \div 1000 + (16 * FX) \div 116

(* xyz2lab: arr = xyz / xyz_ref_white, then L = 116 y - 16,
   a = 500 (x - y), b = 200 (y - z) *)
xyz2lab(xyz) ==
    LET x == lab_f((xyz[1] * 100000) \div 95047)
        y == lab_f(xyz[2])
        z == lab_f((xyz[3] * 100000) \div 108883)
    IN  << 116 * y - 16 * FX, 500 * (x - y), 200 * (y - z) >>

rgb2lab(rgb) == xyz2lab(rgb2xyz(rgb))

(* mutant: the chroma channels divided by 64 *)
convert_colorspace_64(rgb) ==
    LET lab == rgb2lab(rgb)
    IN  << lab[1] \div 100, lab[2] \div 64, lab[3] \div 64 >>

(* convert_colorspace: images_lab / (100.0, 128.0, 128.0) *)
convert_colorspace(rgb) ==
    LET lab == rgb2lab(rgb)
    IN  << lab[1] \div 100, lab[2] \div 128, lab[3] \div 128 >>

(* a channel value in [0, 1] *)
ColourValues == {(k * FX) \div ColourLevels : k \in 0..ColourLevels}

InitColour ==
    /\ InitShapeIdle
    /\ InitAugIdle
    /\ InitHarnessIdle
    /\ InitOwnIdle
    /\ InitConfigurationIdle
    /\ InitBlockIdle
    /\ InitBlurIdle
    /\ InitDefaultIdle
    /\ InitRunsIdle
    /\ callee = "convert_colorspace"
    /\ inputs = NoShape
    /\ target_stride = 0
    /\ jpu_features = 0
    /\ intermediate_features = <<>>
    /\ cpc = "start"
    /\ images \in ColourValues \X ColourValues \X ColourValues
    /\ images_lab = <<>>

ConvertColorspace ==
    /\ cpc = "start"
    /\ images_lab' = convert_colorspace(images)
    /\ cpc' = "converted"
    /\ UNCHANGED images
    /\ UNCHANGED exceptColourVars
    /\ UNCHANGED <<shapeVars, augVars, harnessVars, ownVars>>

NextColour ==
    \/ ConvertColorspace

SpecColour == InitColour /\ [][NextColour]_vars

(***************************************************************************)
(* Properties of the colour conversion                                     *)
(***************************************************************************)

(* C23: for every RGB input with all channels in [0, 1], convert_colorspace
   returns a lightness channel in [0, 1] and two chroma channels in
   [-1, 1). *)
C23_ColourRange ==
    (cpc = "converted") =>
        /\ images_lab[1] >= 0 /\ images_lab[1] <= FX
        /\ images_lab[2] >= 0 - FX /\ images_lab[2] < FX
        /\ images_lab[3] >= 0 - FX /\ images_lab[3] < FX

(* white, black and blue converted: lightness 1, lightness 0, and a blue
   chroma below -0.8 *)
C23_Witness ==
    /\ cpc = "converted"
    /\ \/ images = <<FX, FX, FX>> /\ images_lab[1] = FX
       \/ images = <<0, 0, 0>> /\ images_lab = <<0, 0, 0>>
    /\ convert_colorspace(<<0, 0, FX>>)[3] * 10 < 0 - 8 * FX


(***************************************************************************)
(* BottleneckBlock (resnet.py).  `features` is followed as the list of the *)
(* layers applied to the block's input so far, with the shape they give.   *)
(***************************************************************************)

MaxBlockDim == 3

BlockFilters == {1, 64}

BlockChannels == {1, 4}

BlockInputs ==
    {[applied |-> <<>>, h |-> h, w |-> w, c |-> c] :
        h \in 1..MaxBlockDim, w \in 1..MaxBlockDim, c \in BlockChannels}

(* strides_in = (2, 2) if downsample else (1, 1) *)
block_strides_in(downsample) == IF downsample THEN 2 ELSE 1

(* tf.keras.layers.Conv2D(filters, kernel_size, strides, padding='same',
   activation=None) *)
Conv2D_same(x, kernel_size, filters, strides) ==
    [applied |-> Append(x.applied, <<"Conv2D", kernel_size, filters>>),
     h |-> conv_same(x.h, strides),
     w |-> conv_same(x.w, strides),
     c |-> filters]

BatchNormalization_call(x) ==
    [x EXCEPT !.applied = Append(@, <<"BatchNormalization">>)]

ReLU_call(x) == [x EXCEPT !.applied = Append(@, <<"ReLU">>)]

(* the layers BottleneckBlock.__init__ constructs *)
block_conv_in(x) ==
    Conv2D_same(x, 1, block.filters_in, block_strides_in(block.downsample))

block_conv_middle(x) == Conv2D_same(x, 3, block.filters_in, 1)

block_conv_out(x) == Conv2D_same(x, 1, 4 * block.filters_in, 1)

InitBlock ==
    /\ InitShapeIdle
    /\ InitAugIdle
    /\ InitHarnessIdle
    /\ InitOwnIdle
    /\ InitConfigurationIdle
    /\ InitColourIdle
    /\ InitBlurIdle
    /\ InitDefaultIdle
    /\ InitRunsIdle
    /\ callee = "BottleneckBlock.call"
    /\ inputs = NoShape
    /\ target_stride = 0
    /\ jpu_features = 0
    /\ intermediate_features = <<>>
    /\ bpc = "start"
    /\ block \in [filters_in : BlockFilters, downsample : BOOLEAN,
                  inputs : BlockInputs]
    /\ block_features = <<>>
    /\ block_output = <<>>

BlockStep(from, to, result) ==
    /\ bpc = from
    /\ block_features' = result
    /\ bpc' = to
    /\ UNCHANGED <<block, block_output>>
    /\ UNCHANGED exceptBlockVars
    /\ UNCHANGED <<shapeVars, augVars, harnessVars, ownVars>>

(* features = self.conv_in(inputs) *)
BlockConvIn == BlockStep("start", "conv_in", block_conv_in(block.inputs))

(* features = self.batch_norm_in(features) *)
BlockBatchNormIn ==
    BlockStep("conv_in", "batch_norm_in", BatchNormalization_call(block_features))

(* features1 = self.activation_in(features) *)
BlockActivationIn ==
    BlockStep("batch_norm_in", "activation_in", ReLU_call(block_features))

(* features = self.conv_middle(features1) *)
BlockConvMiddle ==
    BlockStep("activation_in", "conv_middle", block_conv_middle(block_features))

(* features = self.batch_norm_middle(features) *)
BlockBatchNormMiddle ==
    BlockStep("conv_middle", "batch_norm_middle",
              BatchNormalization_call(block_features))

(* features2 = self.activation_middle(features) *)
BlockActivationMiddle ==
    BlockStep("batch_norm_middle", "activation_middle", ReLU_call(block_features))

(* features = self.conv_out(features2) *)
BlockConvOut ==
    BlockStep("activation_middle", "conv_out", block_conv_out(block_features))

(* output = self.batch_norm_out(features); return output *)
BlockBatchNormOutReturn ==
    /\ bpc = "conv_out"
    /\ block_output' = BatchNormalization_call(block_features)
    /\ bpc' = "returned"
    /\ UNCHANGED <<block, block_features>>
    /\ UNCHANGED exceptBlockVars
    /\ UNCHANGED <<shapeVars, augVars, harnessVars, ownVars>>

NextBlock ==
    \/ BlockConvIn
    \/ BlockBatchNormIn
    \/ BlockActivationIn
    \/ BlockConvMiddle
    \/ BlockBatchNormMiddle
    \/ BlockActivationMiddle
    \/ BlockConvOut
    \/ BlockBatchNormOutReturn

SpecBlock == InitBlock /\ [][NextBlock]_vars

(***************************************************************************)
(* Properties of the bottleneck block                                      *)
(***************************************************************************)

C24_Order ==
    << <<"Conv2D", 1, block.filters_in>>, <<"BatchNormalization">>, <<"ReLU">>,
       <<"Conv2D", 3, block.filters_in>>, <<"BatchNormalization">>, <<"ReLU">>,
       <<"Conv2D", 1, 4 * block.filters_in>>, <<"BatchNormalization">>,
       <<"Add">>, <<"ReLU">> >>

(* C24: every BottleneckBlock.call applies 1x1 convolution, normalization,
   rectification, 3x3 convolution, normalization, rectification, 1x1
   convolution to 4x the filters, normalization, the add of the shortcut
   and a final rectification, in this order, and returns the rectified
   sum. *)
C24_BottleneckOrder ==
    (bpc = "returned") => block_output.applied = C24_Order


(***************************************************************************)
(* The blur step of _augment_sample on images with values: an image is a   *)
(* grid of pixels of three channel values in units of 1/FX.  sigma squared *)
(* is counted in quarters (sigma in [0.5, 1) has sigma squared in          *)
(* [1/4, 1)).                                                              *)
(***************************************************************************)

MaxBlurDim == 3

MaxBlurSize == 5

SigmaSquaredQuarters == {1, 2}

(* exp(-1/8) *)
EXP_EIGHTH == 1126

(* tf.exp(-n / 8) *)
RECURSIVE exp_neg_eighths(_)
exp_neg_eighths(n) ==
    IF n = 0 THEN FX
    ELSE IF n % 2 = 1 THEN fx_mul(EXP_EIGHTH, exp_neg_eighths(n - 1))
    ELSE LET root == exp_neg_eighths(n \div 2) IN fx_mul(root, root)

RECURSIVE blur_sum(_)
blur_sum(terms) ==
    IF terms = <<>> THEN 0 ELSE Head(terms) + blur_sum(Tail(terms))

(* mutant: half the kernel size rounded up *)
half_kernel_size_ceil(size) == (size + 1) \div 2

(* half_kernel_size = kernel_size // 2 *)
half_kernel_size_of(size) == size \div 2

(* np.mgrid[-half_kernel_size:half_kernel_size + 1]: points per axis *)
mgrid_points(size) == 2 * half_kernel_size_of(size) + 1

(* kernel = 1 / (2 pi sigma^2) * exp(-coordinates / (2 sigma^2)) *)
gaussian_kernel(size, q) ==
    LET half == half_kernel_size_of(size)
        peak == (4 * FX * 1000) \div (q * 6283)
    IN  [u \in 1..mgrid_points(size) |-> [v \in 1..mgrid_points(size) |->
            LET grid_y == u - 1 - half
                grid_x == v - 1 - half
                coordinates == grid_y * grid_y + grid_x * grid_x
            IN  fx_mul(peak, exp_neg_eighths((16 * coordinates) \div q))]]

(* tf.reshape(kernel, (kernel_size, kernel_size, 1, 1)) keeps the number
   of elements *)
reshape_defined(size) == mgrid_points(size) * mgrid_points(size) = size * size

(* tf.pad(mode='REFLECT'): the row or column a padded index reads *)
reflect_index(p, n) == IF p < 1 THEN 2 - p ELSE IF p > n THEN 2 * n - p ELSE p

(* tf.pad(image, ((half, half), (half, half), (0, 0)), mode='REFLECT') *)
reflect_pad(img, half) ==
    [i \in 1..(Height(img) + 2 * half) |->
       [j \in 1..(Width(img) + 2 * half) |->
          img[reflect_index(i - half, Height(img))]
             [reflect_index(j - half, Width(img))]]]

reflect_pad_defined(img, half) ==
    half <= Height(img) - 1 /\ half <= Width(img) - 1

(* tf.clip_by_value(value, 0.0, 1.0) *)
clip_by_value(value) == Max(0, Min(value, FX))

(* tf.nn.depthwise_conv2d(padded_image, kernel, strides=1, padding='VALID')
   followed by the clipping *)
depthwise_conv2d_clipped(padded, kernel, size) ==
    [i \in 1..conv_valid(Height(padded), size, 1) |->
       [j \in 1..conv_valid(Width(padded), size, 1) |->
          [ch \in 1..RGB_CHANNELS |->
             clip_by_value(blur_sum(
                 [t \in 1..(size * size) |->
                    LET u == ((t - 1) \div size) + 1
                        v == ((t - 1) % size) + 1
                    IN  fx_mul(padded[i + u - 1][j + v - 1][ch], kernel[u][v])]))]]]

augment_blur_values_defined(img, size) ==
    /\ reshape_defined(size)
    /\ reflect_pad_defined(img, half_kernel_size_of(size))

(* _augment_blur *)
augment_blur_values(img, size, q) ==
    depthwise_conv2d_clipped(reflect_pad(img, half_kernel_size_of(size)),
                             gaussian_kernel(size, q), size)

BlurImages(h, w) ==
    {[i \in 1..h |-> [j \in 1..w |-> [ch \in 1..RGB_CHANNELS |->
         (((a * i + b * j) * (ch - 1) + 1) % 2) * FX]]] : a \in 0..1, b \in 0..1}

BlurMasks(h, w) == {[i \in 1..h |-> [j \in 1..w |-> m]] : m \in 0..1}

InitBlur ==
    /\ InitShapeIdle
    /\ InitAugIdle
    /\ InitHarnessIdle
    /\ InitOwnIdle
    /\ InitConfigurationIdle
    /\ InitColourIdle
    /\ InitBlockIdle
    /\ InitDefaultIdle
    /\ InitRunsIdle
    /\ callee = "_augment_blur"
    /\ inputs = NoShape
    /\ target_stride = 0
    /\ jpu_features = 0
    /\ intermediate_features = <<>>
    /\ kpc = "start"
    /\ blur_size \in 1..MaxBlurSize
    /\ sigma_squared \in SigmaSquaredQuarters
    /\ \E h \in 1..MaxBlurDim, w \in 1..MaxBlurDim :
           /\ blur_image \in BlurImages(h, w)
           /\ blur_mask \in BlurMasks(h, w)
    /\ blur_selected = FALSE
    /\ blur_output = <<>>

(* do_blur = uniform() < probability;
   blurred_image = tf.cond(do_blur, lambda: self._augment_blur(image),
                           lambda: image) *)
BlurStep ==
    /\ kpc = "start"
    /\ \E draw \in BOOLEAN :
        /\ blur_selected' = draw
        /\ IF draw /\ ~augment_blur_values_defined(blur_image, blur_size)
           THEN /\ kpc' = "error"
                /\ UNCHANGED blur_output
           ELSE /\ blur_output' =
                       IF draw
                       THEN augment_blur_values(blur_image, blur_size,
                                                sigma_squared)
                       ELSE blur_image
                /\ kpc' = "blurred"
    /\ UNCHANGED <<blur_size, sigma_squared, blur_image, blur_mask>>
    /\ UNCHANGED exceptBlurVars
    /\ UNCHANGED <<shapeVars, augVars, harnessVars, ownVars>>

NextBlur ==
    \/ BlurStep

SpecBlur == InitBlur /\ [][NextBlur]_vars

(***************************************************************************)
(* Properties of the blur step                                             *)
(***************************************************************************)

C25_SameShape ==
    /\ Height(blur_output) = Height(blur_image)
    /\ Width(blur_output) = Width(blur_image)
    /\ \A i \in 1..Height(blur_output) : \A j \in 1..Width(blur_output) :
           /\ DOMAIN blur_output[i][j] = 1..3
           /\ \A ch \in 1..3 :
                  blur_output[i][j][ch] >= 0 /\ blur_output[i][j][ch] <= FX

C25_PassThrough ==
    (kpc # "start" /\ ~blur_selected) =>
        (kpc = "blurred" /\ blur_output = blur_image)

(* C25 as stated: an unselected blur passes the image through; a selected
   one gives, for every kernel size >= 1, an image of the input's height,
   width and 3 channels with values in [0, 1]. *)
C25_BlurEverySize ==
    /\ C25_PassThrough
    /\ (kpc # "start" /\ blur_selected /\ blur_size >= 1) =>
           (kpc = "blurred" /\ C25_SameShape)

C25_Odd == blur_size % 2 = 1

C25_Fits ==
    /\ blur_size \div 2 < Height(blur_image)
    /\ blur_size \div 2 < Width(blur_image)

C25_Blurred ==
    /\ C25_PassThrough
    /\ (kpc # "start" /\ blur_selected /\ C25_Odd /\ C25_Fits) =>
           (kpc = "blurred" /\ C25_SameShape)
    /\ (kpc # "start" /\ blur_selected /\ ~(C25_Odd /\ C25_Fits)) =>
           (kpc = "error" /\ blur_output = <<>>)

C25_MaskUntouched == blur_mask' = blur_mask /\ blur_image' = blur_image

(* C25, amended: an unselected blur passes the image through unchanged; a
   selected one gives, for every odd kernel size whose half is smaller than
   the image's height and width, an image of the input's height, width and
   3 channels with values in [0, 1], and fails for every other kernel size
   (an even size cannot be reshaped, a half of at least the height or width
   cannot be reflected); the mask is not touched by the blur step. *)
C25_BlurStepShape == [](C25_Blurred) /\ [][C25_MaskUntouched]_vars

(* a white channel blurred with the 3 x 3 kernel of sigma = 0.5 sums to more
   than 1 and is clipped to it *)
C25_Witness ==
    /\ kpc = "blurred" /\ blur_selected
    /\ blur_size = 3 /\ sigma_squared = 1
    /\ Height(blur_image) = 3 /\ Width(blur_image) = 2
    /\ blur_output # blur_image
    /\ blur_sum([t \in 1..9 |->
           gaussian_kernel(3, 1)[((t - 1) \div 3) + 1][((t - 1) % 3) + 1]]) > FX
    /\ \E i \in 1..3, j \in 1..2, ch \in 1..3 :
           blur_image[i][j][ch] = FX /\ blur_output[i][j][ch] = FX


(***************************************************************************)
(* _augment_sample with the parameters of build_parameter_dict on a        *)
(* 400 x 400 sample, followed by its shapes.  Scaling factors are counted  *)
(* in 1/DefaultScaleDen.                                                   *)
(***************************************************************************)

DefaultScaleDen == 1000

(* 'augmentation_max_relative_scaling': 0.04, in percent *)
MAX_RELATIVE_SCALING_PERCENT == 4

(* 'training_image_size': (384, 384) *)
TRAINING_IMAGE_SIZE == 384

DefaultInput == [h |-> 400, w |-> 400]

(* mutant: factors drawn from one percent more on either side *)
DefaultFactorsWider ==
    {n \in 0..(2 * DefaultScaleDen) :
        /\ 100 * n >= (100 - MAX_RELATIVE_SCALING_PERCENT - 1) * DefaultScaleDen
        /\ 100 * n < (100 + MAX_RELATIVE_SCALING_PERCENT + 1) * DefaultScaleDen}

(* tf.random.uniform(minval=1.0 - 0.04, maxval=1.0 + 0.04) *)
DefaultFactors ==
    {n \in 0..(2 * DefaultScaleDen) :
        /\ 100 * n >= (100 - MAX_RELATIVE_SCALING_PERCENT) * DefaultScaleDen
        /\ 100 * n < (100 + MAX_RELATIVE_SCALING_PERCENT) * DefaultScaleDen}

(* scaled_size = cast(round((input_height * scaling_factor,
                             input_width * scaling_factor)), int32) *)
default_scaled_size_of(shape, factor) ==
    << RoundHalfEven(shape.h * factor, DefaultScaleDen),
       RoundHalfEven(shape.w * factor, DefaultScaleDen) >>

(* tf.image.rot90 on a shape: an odd number of quarter turns swaps the axes *)
rot90_size(size, k) == IF k % 2 = 1 THEN <<size[2], size[1]>> ELSE size

(* tf.image.random_crop on a shape *)
random_crop_size_defined(size, crop_size) ==
    size[1] >= crop_size /\ size[2] >= crop_size

InitDefault ==
    /\ InitShapeIdle
    /\ InitAugIdle
    /\ InitHarnessIdle
    /\ InitOwnIdle
    /\ InitConfigurationIdle
    /\ InitColourIdle
    /\ InitBlockIdle
    /\ InitBlurIdle
    /\ InitRunsIdle
    /\ callee = "_augment_sample (default parameters)"
    /\ inputs = NoShape
    /\ target_stride = 0
    /\ jpu_features = 0
    /\ intermediate_features = <<>>
    /\ dpc = "start"
    /\ default_factor = 0
    /\ default_blurred = <<>>
    /\ default_scaled_size = <<>>
    /\ default_rotated = <<>>
    /\ default_output = <<>>

(* blurred_image = tf.cond(do_blur, ...), kernel size 5 *)
DefaultBlur ==
    /\ dpc = "start"
    /\ \E draw \in BOOLEAN :
        IF draw /\ ~augment_blur_defined(DefaultInput)
        THEN /\ dpc' = "error"
             /\ UNCHANGED default_blurred
        ELSE /\ default_blurred' =
                    IF draw THEN augment_blur(DefaultInput) ELSE DefaultInput
             /\ dpc' = "blurred"
    /\ UNCHANGED <<default_factor, default_scaled_size, default_rotated,
                   default_output>>
    /\ UNCHANGED exceptDefaultVars
    /\ UNCHANGED <<shapeVars, augVars, harnessVars, ownVars>>

(* scaling_factor, scaled_size, scaled_image, scaled_mask *)
DefaultScale ==
    /\ dpc = "blurred"
    /\ \E factor \in DefaultFactors :
        /\ default_factor' = factor
        /\ default_scaled_size' = default_scaled_size_of(default_blurred, factor)
    /\ dpc' = "scaled"
    /\ UNCHANGED <<default_blurred, default_rotated, default_output>>
    /\ UNCHANGED exceptDefaultVars
    /\ UNCHANGED <<shapeVars, augVars, harnessVars, ownVars>>

(* concatenated_sample, flipped_sample, rotated_sample *)
DefaultFlipRotate ==
    /\ dpc = "scaled"
    /\ \E k \in 0..3 : default_rotated' = rot90_size(default_scaled_size, k)
    /\ dpc' = "rotated"
    /\ UNCHANGED <<default_factor, default_blurred, default_scaled_size,
                   default_output>>
    /\ UNCHANGED exceptDefaultVars
    /\ UNCHANGED <<shapeVars, augVars, harnessVars, ownVars>>

(* cropped_sample = tf.image.random_crop(rotated_sample, (384, 384, 4)),
   split into 3 image channels and 1 mask channel, rounded, converted,
   returned *)
DefaultCropReturn ==
    /\ dpc = "rotated"
    /\ IF random_crop_size_defined(default_rotated, TRAINING_IMAGE_SIZE)
       THEN /\ default_output' =
                   [image |-> <<TRAINING_IMAGE_SIZE, TRAINING_IMAGE_SIZE,
                                RGB_CHANNELS>>,
                    mask |-> <<TRAINING_IMAGE_SIZE, TRAINING_IMAGE_SIZE, 1>>]
            /\ dpc' = "done"
       ELSE /\ dpc' = "error"
            /\ UNCHANGED default_output
    /\ UNCHANGED <<default_factor, default_blurred, default_scaled_size,
                   default_rotated>>
    /\ UNCHANGED exceptDefaultVars
    /\ UNCHANGED <<shapeVars, augVars, harnessVars, ownVars>>

NextDefault ==
    \/ DefaultBlur
    \/ DefaultScale
    \/ DefaultFlipRotate
    \/ DefaultCropReturn

SpecDefault == InitDefault /\ [][NextDefault]_vars

(***************************************************************************)
(* Properties of the default augmentation configuration                    *)
(***************************************************************************)

(* C26: with the default parameters and a 400 x 400 input, for every scale
   factor in [0.96, 1.04) the rounded scaled height and width lie in
   [384, 416], the random crop succeeds and the sample returned has an
   image of 384 x 384 x 3 and a mask of 384 x 384 x 1. *)
C26_DefaultCropSafe ==
    /\ dpc # "error"
    /\ (dpc \in {"scaled", "rotated", "done"}) =>
        /\ default_scaled_size[1] \in 384..416
        /\ default_scaled_size[2] \in 384..416
    /\ (dpc = "done") =>
        /\ default_output.image = <<384, 384, 3>>
        /\ default_output.mask = <<384, 384, 1>>
    /\ ENABLED NextDefault \/ dpc = "done"

(* the smallest factor: the scaled sample is exactly as large as the crop *)
C26_Witness ==
    /\ dpc = "done"
    /\ \A factor \in DefaultFactors : default_factor <= factor
    /\ default_scaled_size = <<384, 384>>
    /\ default_output.image = <<384, 384, 3>>

(***************************************************************************)
(* Further properties of BaseExperiment.run and _run_actual_experiment     *)
(***************************************************************************)

(* fit returned a fitted classifier *)
C27_Fitted == classifier # "None"

(* self.predict(classifier, test_prediction_input) is being called *)
C27_PredictCalled == rpc = "inputs_read" /\ rpc' # rpc

(* C27: predict is invoked and submission.csv is opened only when fit
   produced a fitted classifier; when fit raises, or when the baseline's fit
   cannot load the training data, predict is not called and no submission
   file is created. *)
C27_FitGatesPrediction ==
    /\ [](submission # <<>> => C27_Fitted)
    /\ [][C27_PredictCalled => C27_Fitted]_vars

(* effects of _run_actual_experiment are present *)
C28_InExperiment ==
    \/ rpc \in {"fitted", "inputs_read", "predicted", "writing", "rows",
                "finished", "searching"}
    \/ classifier # "None"
    \/ test_prediction_input # <<>>
    \/ submission # <<>>
    \/ trial > 0

(* the directory exists, logging is set up and parameters.json is written *)
C28_SetupDone ==
    /\ experiment_directory \in directories
    /\ logging_ready
    /\ parameters_json = json_dump(self_parameters)
    /\ parameters_json # <<>>

(* the directory is created new, then logging, then parameters.json, and
   only then the experiment is entered *)
C28_Order ==
    /\ (directories' # directories) =>
        /\ experiment_directory' \notin directories
        /\ directories' = directories \cup {experiment_directory'}
        /\ ~logging_ready
    /\ (logging_ready' # logging_ready) =>
        /\ experiment_directory \in directories
        /\ parameters_json = <<>>
    /\ (parameters_json' # parameters_json) => logging_ready
    /\ (C28_InExperiment' /\ ~C28_InExperiment) =>
        /\ rpc = "stored"
        /\ C28_SetupDone

(* run has returned from the failed makedirs or the failed json.dump *)
C28_SetupFailed == rpc = "returned" /\ parameters_json = <<>>

(* C28: _run_actual_experiment is invoked only after the output directory
   was newly created, logging was set up and parameters.json was written,
   in that order; when creating the directory or saving the parameters
   fails, run returns and neither the experiment nor the line after it
   ('Finished experiment') is executed. *)
C28_SetupGatesExperiment ==
    /\ [](C28_InExperiment => C28_SetupDone)
    /\ [](C28_SetupFailed => (~C28_InExperiment /\ ~ENABLED NextHarness))
    /\ [][C28_Order]_vars

(* a fitted experiment on top of a complete setup *)
C28_Witness ==
    /\ rpc = "fitted"
    /\ classifier # "None"
    /\ C28_SetupDone

(***************************************************************************)
(* Several runs of BaseExperiment.run at once on one file system, from the *)
(* directory name to the end of the experiment.  A directory is recorded   *)
(* with the run whose mkdir made it (0: it was there before), a file with  *)
(* the run that wrote it.                                                  *)
(***************************************************************************)

MaxRuns == 2

Runs == 1..MaxRuns

(* datetime.datetime.now() formatted with %y%m%d-%H%M%S: two seconds *)
RunNows == {"200101-120000", "200101-120001"}

RunTags == {tag(class) : class \in FitClasses}

(* --logdir *)
RUN_LOG_DIRECTORY == "log"

(* os.path.exists / os.path.isdir *)
path_exists(path) == \E d \in fs_directories : d.path = path

(* the entry a successful mkdir leaves behind *)
made_directory(path, run) == [path |-> path, by |-> run]

written_file(directory, name, run) ==
    [directory |-> directory, name |-> name, by |-> run]

checkpoint_dir(log_dir) == log_dir \o "/" \o "checkpoints"

InitRuns ==
    /\ InitShapeIdle
    /\ InitAugIdle
    /\ InitHarnessIdle
    /\ InitOwnIdle
    /\ InitConfigurationIdle
    /\ InitColourIdle
    /\ InitBlockIdle
    /\ InitBlurIdle
    /\ InitDefaultIdle
    /\ callee = "run (concurrent)"
    /\ inputs = NoShape
    /\ target_stride = 0
    /\ jpu_features = 0
    /\ intermediate_features = <<>>
    /\ run_pc = [r \in Runs |-> "built"]
    /\ run_tag \in [Runs -> RunTags]
    /\ run_directory = [r \in Runs |-> ""]
    /\ fs_directories \in SUBSET {made_directory(RUN_LOG_DIRECTORY, 0)}
    /\ fs_files = {}

(* directory_name, self._experiment_directory *)
RunsName(r) ==
    /\ run_pc[r] = "built"
    /\ \E now \in RunNows :
        run_directory' =
            [run_directory EXCEPT ![r] =
                directory_path(RUN_LOG_DIRECTORY, run_tag[r], now)]
    /\ run_pc' = [run_pc EXCEPT ![r] = "named"]
    /\ UNCHANGED <<run_tag, fs_directories, fs_files>>
    /\ UNCHANGED exceptRunsVars
    /\ UNCHANGED <<shapeVars, augVars, harnessVars, ownVars>>

(* os.makedirs: the missing parents are made first, one already there is
   not an error *)
RunsMakeParents(r) ==
    /\ run_pc[r] = "named"
    /\ \E os_error \in BOOLEAN :
        IF os_error
        THEN /\ run_pc' = [run_pc EXCEPT ![r] = "returned"]
             /\ UNCHANGED fs_directories
        ELSE /\ fs_directories' =
                    IF path_exists(RUN_LOG_DIRECTORY) THEN fs_directories
                    ELSE fs_directories
                            \cup {made_directory(RUN_LOG_DIRECTORY, r)}
             /\ run_pc' = [run_pc EXCEPT ![r] = "parents"]
    /\ UNCHANGED <<run_tag, run_directory, fs_files>>
    /\ UNCHANGED exceptRunsVars
    /\ UNCHANGED <<shapeVars, augVars, harnessVars, ownVars>>

(* mutant: os.makedirs(self._experiment_directory, exist_ok=True) *)
RunsMkdirExistOk(r) ==
    /\ run_pc[r] = "parents"
    /\ \E os_error \in BOOLEAN :
        IF os_error
        THEN /\ run_pc' = [run_pc EXCEPT ![r] = "returned"]
             /\ UNCHANGED fs_directories
        ELSE /\ fs_directories' =
                    IF path_exists(run_directory[r]) THEN fs_directories
                    ELSE fs_directories
                            \cup {made_directory(run_directory[r], r)}
             /\ run_pc' = [run_pc EXCEPT ![r] = "directory"]
    /\ UNCHANGED <<run_tag, run_directory, fs_files>>
    /\ UNCHANGED exceptRunsVars
    /\ UNCHANGED <<shapeVars, augVars, harnessVars, ownVars>>

(* os.makedirs(self._experiment_directory, exist_ok=False): the mkdir of
   the directory itself, one system call; except OSError: print, return *)
RunsMkdir(r) ==
    /\ run_pc[r] = "parents"
    /\ \E os_error \in BOOLEAN :
        IF os_error \/ path_exists(run_directory[r])
        THEN /\ run_pc' = [run_pc EXCEPT ![r] = "returned"]
             /\ UNCHANGED fs_directories
        ELSE /\ fs_directories' =
                    fs_directories \cup {made_directory(run_directory[r], r)}
             /\ run_pc' = [run_pc EXCEPT ![r] = "directory"]
    /\ UNCHANGED <<run_tag, run_directory, fs_files>>
    /\ UNCHANGED exceptRunsVars
    /\ UNCHANGED <<shapeVars, augVars, harnessVars, ownVars>>

(* self._setup_logging: logging.FileHandler(log_file_name) *)
RunsSetupLogging(r) ==
    /\ run_pc[r] = "directory"
    /\ fs_files' = fs_files \cup {written_file(run_directory[r], "log.txt", r)}
    /\ run_pc' = [run_pc EXCEPT ![r] = "logging"]
    /\ UNCHANGED <<run_tag, run_directory, fs_directories>>
    /\ UNCHANGED exceptRunsVars
    /\ UNCHANGED <<shapeVars, augVars, harnessVars, ownVars>>

(* KerasHelper(self.experiment_directory); json.dump into parameters.json *)
RunsStoreParameters(r) ==
    /\ run_pc[r] = "logging"
    /\ \E failed \in BOOLEAN :
        IF failed
        THEN /\ run_pc' = [run_pc EXCEPT ![r] = "returned"]
             /\ UNCHANGED fs_files
        ELSE /\ fs_files' = fs_files
                    \cup {written_file(run_directory[r], "parameters.json", r)}
             /\ run_pc' = [run_pc EXCEPT ![r] = "stored"]
    /\ UNCHANGED <<run_tag, run_directory, fs_directories>>
    /\ UNCHANGED exceptRunsVars
    /\ UNCHANGED <<shapeVars, augVars, harnessVars, ownVars>>

(* self._run_actual_experiment(): the checkpoint directory is made with
   os.makedirs(checkpoint_dir, exist_ok=False) and the checkpoints are
   written into it; an OSError ends the experiment *)
RunsExperiment(r) ==
    /\ run_pc[r] = "stored"
    /\ LET checkpoints == checkpoint_dir(run_directory[r])
       IN  IF path_exists(checkpoints)
           THEN UNCHANGED <<fs_directories, fs_files>>
           ELSE /\ fs_directories' =
                       fs_directories \cup {made_directory(checkpoints, r)}
                /\ fs_files' = fs_files
                       \cup {written_file(checkpoints, "checkpoint", r)}
    /\ run_pc' = [run_pc EXCEPT ![r] = "finished"]
    /\ UNCHANGED <<run_tag, run_directory>>
    /\ UNCHANGED exceptRunsVars
    /\ UNCHANGED <<shapeVars, augVars, harnessVars, ownVars>>

NextRuns ==
    \E r \in Runs :
        \/ RunsName(r)
        \/ RunsMakeParents(r)
        \/ RunsMkdir(r)
        \/ RunsSetupLogging(r)
        \/ RunsStoreParameters(r)
        \/ RunsExperiment(r)

SpecRuns == InitRuns /\ [][NextRuns]_vars

(***************************************************************************)
(* Properties of concurrent runs                                           *)
(***************************************************************************)

(* the run's own mkdir made its experiment directory *)
C29_Created(r) ==
    made_directory(run_directory[r], r) \in fs_directories

(* the run is past os.makedirs *)
C29_PastMakedirs(r) == run_pc[r] \notin {"built", "named", "parents"}

(* the run wrote nothing into its directory or below it *)
C29_WroteNothing(r) ==
    /\ \A f \in fs_files : f.by # r
    /\ \A d \in fs_directories : d.by = r => d.path = RUN_LOG_DIRECTORY

(* C29: when two runs with the same tag and log directory compute the same
   directory name, under any interleaving at most one of them creates the
   directory and proceeds; the other returns from run without setting up
   logging, writing parameters.json or running its experiment there. *)
C29_NeverShared ==
    \A r1 \in Runs, r2 \in Runs :
        (r1 # r2 /\ run_directory[r1] # ""
                 /\ run_directory[r1] = run_directory[r2]) =>
            /\ ~(C29_Created(r1) /\ C29_Created(r2))
            /\ (C29_PastMakedirs(r1) /\ ~C29_Created(r1)) =>
                    /\ run_pc[r1] = "returned"
                    /\ C29_WroteNothing(r1)
            /\ \A f \in fs_files :
                    (f.directory \in {run_directory[r1],
                                      checkpoint_dir(run_directory[r1])}
                        /\ C29_Created(r1)) => f.by = r1

(* two runs with one name: the first finished its experiment in the
   directory, the second came back from makedirs *)
C29_Witness ==
    /\ run_directory[1] # ""
    /\ run_directory[1] = run_directory[2]
    /\ run_pc[1] = "finished"
    /\ C29_Created(1)
    /\ written_file(checkpoint_dir(run_directory[1]), "checkpoint", 1) \in fs_files
    /\ run_pc[2] = "returned"
    /\ C29_WroteNothing(2)

(***************************************************************************)
(* Further properties of the models' padding and cropping                  *)
(***************************************************************************)

(* rows and columns the centre crop removes behind the kept ones *)
C30_TrailingCrop ==
    [bottom |-> padded_outputs.h - inputs.h - crop.crop_top,
     right |-> padded_outputs.w - inputs.w - crop.crop_left]

(* C30: in TestFastFCN.call, for every input height and width, the leading
   rows and columns removed by the centre crop are exactly those
   pad_to_stride added in front, the trailing edge taking the odd one; in
   FastFCN.call and FastFCNNoContext.call, for every height or width that
   is a multiple of 16, the leading crop at stride 8 times 8 equals
   pad_before. *)
C30_CropUndoesPadding ==
    (callee \in Models /\ pc = "done") =>
        /\ callee = "TestFastFCN" =>
            /\ crop.crop_top = paddings.top
            /\ crop.crop_left = paddings.left
            /\ crop.crop_top = (padded_outputs.h - inputs.h) \div 2
            /\ crop.crop_left = (padded_outputs.w - inputs.w) \div 2
            /\ C30_TrailingCrop.bottom = paddings.bottom
            /\ C30_TrailingCrop.right = paddings.right
            /\ C30_TrailingCrop.bottom - crop.crop_top \in {0, 1}
            /\ C30_TrailingCrop.right - crop.crop_left \in {0, 1}
            /\ crop.pad_top = 0 /\ crop.pad_left = 0
        /\ callee \in {"FastFCN", "FastFCNNoContext"} =>
            /\ (inputs.h % 16 = 0) => crop.crop_top * OUTPUT_STRIDE = paddings.top
            /\ (inputs.w % 16 = 0) => crop.crop_left * OUTPUT_STRIDE = paddings.left

(* an odd surplus in TestFastFCN, and a FastFCN input of 16 by 32 *)
C30_Witness ==
    /\ pc = "done"
    /\ \/ /\ callee = "TestFastFCN"
          /\ inputs.h = 33
          /\ crop.crop_top = 15
          /\ C30_TrailingCrop.bottom = 16
       \/ /\ callee = "FastFCN"
          /\ inputs.h = 16 /\ inputs.w = 32
          /\ crop.crop_top = 1 /\ crop.crop_left = 2

====
